---- MODULE Spec2Model ----
(***************************************************************************)
(* Terminal Pong: the curses game (src/pong/pong.py, class PongGame) and   *)
(* the cross-platform game (src/pong/pong_crossplatform.py, class          *)
(* CrossPlatformPong).                                                     *)
(*                                                                         *)
(* Fixed point.  The programs compute in floats; the model computes in     *)
(* integers:                                                               *)
(*   time                      milliseconds                                *)
(*   ball position, velocity   1/1000 cell (per ball step)                 *)
(*   paddle velocity           1/1000 cell per second                      *)
(*   paddle position           1/1000000 cell (velocity * dt is exact)     *)
(*   factors (ai_speed, ...)   1/1000                                      *)
(* Timestamps are kept as ages: the programs only ever read                *)
(* time.time() - last_x, so ball_age = now - last_ball_move,               *)
(* paddle_age = now - last_paddle_update, key_age[k] = now -               *)
(* last_key_time[k], each saturating at AgeCap, which lies above every     *)
(* threshold the code compares an age with.                                *)
(***************************************************************************)
EXTENDS Integers, Sequences, FiniteSets, TLC

\* ------------------------------------------------------------------ bounds
\* terminal size (stdscr.getmaxyx()); main() refuses less than 60 x 20
height == 20
width == 60
\* main-loop iterations explored from each initial state
MaxTicks == 2
\* saturation of the ages
AgeCap == 200
\* key presses waiting in the cross-platform input queue
MaxQueue == 1
\* how long the held-down scenario holds the key, ms
MaxHold == 1000
\* key presses the keyboard listener makes in the queue scenario
MaxSent == 2

\* ------------------------------------------------------- program constants
\* the same in both programs
target_score == 10
paddle_height == 5
paddle_width == 1
\* cells per second, in 1/1000
paddle_speed == 15000
\* cells per second^2; times dt in ms gives 1/1000 cell per second
paddle_acceleration == 50
\* ai_acceleration = paddle_acceleration * 0.8
ai_acceleration == 40
ai_base_speed == 800
ai_base_prediction == 300
\* base_speed = 2.0
base_speed == 2000
\* key_timeout = 0.08
key_timeout == 80
\* dt = min(dt, 0.1)
dt_cap == 100
\* self.width = 80, self.height = 24: the fixed field of CrossPlatformPong
x_width == 80
x_height == 24
\* speed = 1.0 in CrossPlatformPong.reset_ball
x_speed == 1000
\* self.ai_speed = 0.7, self.ai_prediction = 0.3 in CrossPlatformPong
x_ai_speed == 700
x_ai_prediction == 300
\* self.ball_speed = 0.15: the sleep at the end of each loop iteration
x_ball_speed == 150

ball_speeds == <<40, 20, 10>>
difficulty_multipliers == <<600, 800, 1000>>
difficulty_speed_multipliers == <<800, 1000, 1400>>

\* ----------------------------------------------------------------- helpers
Abs(x) == IF x < 0 THEN -x ELSE x
Min(a, b) == IF a < b THEN a ELSE b
Max(a, b) == IF a > b THEN a ELSE b

\* a / b truncated toward zero, b > 0
TruncDiv(a, b) == IF a >= 0 THEN a \div b ELSE -((-a) \div b)

\* Python int(round(m / unit)): to nearest, ties to even
PyRound(m, unit) ==
    LET q == m \div unit
        r == m % unit
    IN  IF 2 * r < unit THEN q
        ELSE IF 2 * r > unit THEN q + 1
        ELSE IF q % 2 = 0 THEN q ELSE q + 1

Cell == 1000
PCell == 1000000

\* ------------------------------------------------------------------- state
MoveKeys == {"w", "s", "up", "down"}

VARIABLES
    variant,            \* "curses" | "cross": which of the two programs runs
    pc,                 \* position in run(): input, ball, ai, paddle, draw, done
    ticks,              \* iterations of the main loop so far
    single_player, current_difficulty, ball_speed, ai_speed, ai_prediction,
    p1_y, p2_y, p1_velocity, p2_velocity, p1_score, p2_score,
    p1_moving_up, p1_moving_down, p2_moving_up, p2_moving_down,
    ball_x, ball_y, ball_dx, ball_dy, ball_age, paddle_age,
    game_over, winner, paused,
    key_states, key_age, continuous_keys,
    input_queue,        \* CrossPlatformPong.input_queue
    read,               \* the keys the handle_input call just made has read (history)
    bt,                 \* what the last update_ball did (history)
    pz,                 \* the pause in progress and the game it interrupted (history)
    hold,               \* the key held since the reset and for how long (history)
    chan,               \* the keys put into and taken from input_queue so far (history)
    last_hit            \* the paddle that hit the ball last since its reset (history)

gvars == <<single_player, current_difficulty, ball_speed, ai_speed, ai_prediction,
           p1_y, p2_y, p1_velocity, p2_velocity, p1_score, p2_score,
           p1_moving_up, p1_moving_down, p2_moving_up, p2_moving_down,
           ball_x, ball_y, ball_dx, ball_dy, ball_age, paddle_age,
           game_over, winner, paused, key_states, key_age, continuous_keys>>

hvars == <<read, bt, pz, hold, chan, last_hit>>

vars == <<variant, pc, ticks, gvars, input_queue, hvars>>

\* the game object as a record: the handlers are functions on it
Cur ==
    [ single_player |-> single_player, current_difficulty |-> current_difficulty,
      ball_speed |-> ball_speed, ai_speed |-> ai_speed, ai_prediction |-> ai_prediction,
      p1_y |-> p1_y, p2_y |-> p2_y, p1_velocity |-> p1_velocity, p2_velocity |-> p2_velocity,
      p1_score |-> p1_score, p2_score |-> p2_score,
      p1_moving_up |-> p1_moving_up, p1_moving_down |-> p1_moving_down,
      p2_moving_up |-> p2_moving_up, p2_moving_down |-> p2_moving_down,
      ball_x |-> ball_x, ball_y |-> ball_y, ball_dx |-> ball_dx, ball_dy |-> ball_dy,
      ball_age |-> ball_age, paddle_age |-> paddle_age,
      game_over |-> game_over, winner |-> winner, paused |-> paused,
      key_states |-> key_states, key_age |-> key_age, continuous_keys |-> continuous_keys ]

Commit(g) ==
    /\ single_player' = g.single_player
    /\ current_difficulty' = g.current_difficulty
    /\ ball_speed' = g.ball_speed
    /\ ai_speed' = g.ai_speed
    /\ ai_prediction' = g.ai_prediction
    /\ p1_y' = g.p1_y
    /\ p2_y' = g.p2_y
    /\ p1_velocity' = g.p1_velocity
    /\ p2_velocity' = g.p2_velocity
    /\ p1_score' = g.p1_score
    /\ p2_score' = g.p2_score
    /\ p1_moving_up' = g.p1_moving_up
    /\ p1_moving_down' = g.p1_moving_down
    /\ p2_moving_up' = g.p2_moving_up
    /\ p2_moving_down' = g.p2_moving_down
    /\ ball_x' = g.ball_x
    /\ ball_y' = g.ball_y
    /\ ball_dx' = g.ball_dx
    /\ ball_dy' = g.ball_dy
    /\ ball_age' = g.ball_age
    /\ paddle_age' = g.paddle_age
    /\ game_over' = g.game_over
    /\ winner' = g.winner
    /\ paused' = g.paused
    /\ key_states' = g.key_states
    /\ key_age' = g.key_age
    /\ continuous_keys' = g.continuous_keys

\* ---------------------------------------------------------------- PongGame
\* random.uniform(-pi/4, pi/4), then random.choice([True, False]) adds pi:
\* <<cos, sin>> of the angle in 1/1000; 3-4-5 directions keep
\* speed * cos and speed * sin exact
Angles == { <<1000, 0>>, <<800, 600>>, <<800, -600>> }
BallStarts == Angles \cup { <<-a[1], -a[2]>> : a \in Angles }

paddle_start == (height \div 2 - paddle_height \div 2) * PCell
p1_x == 2
p2_x == width - 3
paddle_min == 1 * PCell
paddle_max == (height - paddle_height - 1) * PCell

reset_ball_one_speed(g, rnd) ==
    [g EXCEPT !.ball_x = (width \div 2) * Cell,
              !.ball_y = (height \div 2) * Cell,
              !.ball_dx = (base_speed * rnd[1]) \div 1000,
              !.ball_dy = TruncDiv(base_speed * rnd[2], 1000),
              !.ball_age = 0]

reset_ball(g, rnd) ==
    LET speed == (base_speed * difficulty_speed_multipliers[g.current_difficulty + 1]) \div 1000
    IN  [g EXCEPT !.ball_x = (width \div 2) * Cell,
                  !.ball_y = (height \div 2) * Cell,
                  !.ball_dx = (speed * rnd[1]) \div 1000,
                  !.ball_dy = TruncDiv(speed * rnd[2], 1000),
                  !.ball_age = 0]

reset_game_keeps_scores(g, rnd) ==
    LET h == [g EXCEPT !.p1_y = paddle_start, !.p1_velocity = 0,
                       !.p2_y = paddle_start, !.p2_velocity = 0,
                       !.paddle_age = 0,
                       !.p1_moving_up = FALSE, !.p1_moving_down = FALSE,
                       !.p2_moving_up = FALSE, !.p2_moving_down = FALSE]
    IN  [reset_ball(h, rnd) EXCEPT !.game_over = FALSE, !.winner = "None", !.paused = FALSE]

reset_game(g, rnd) ==
    LET h == [g EXCEPT !.p1_y = paddle_start, !.p1_score = 0, !.p1_velocity = 0,
                       !.p2_y = paddle_start, !.p2_score = 0, !.p2_velocity = 0,
                       !.paddle_age = 0,
                       !.p1_moving_up = FALSE, !.p1_moving_down = FALSE,
                       !.p2_moving_up = FALSE, !.p2_moving_down = FALSE]
    IN  [reset_ball(h, rnd) EXCEPT !.game_over = FALSE, !.winner = "None", !.paused = FALSE]

update_difficulty_settings(g) ==
    LET multiplier == difficulty_multipliers[g.current_difficulty + 1]
    IN  [g EXCEPT !.ai_speed = (ai_base_speed * multiplier) \div 1000,
                  !.ai_prediction = (ai_base_prediction * multiplier) \div 1000,
                  !.ball_speed = ball_speeds[g.current_difficulty + 1]]

cycle_difficulty_stale(g, rnd) ==
    LET h == [g EXCEPT !.current_difficulty = (g.current_difficulty + 1) % 3]
    IN  IF ~h.game_over THEN update_difficulty_settings(reset_game(h, rnd)) ELSE h

cycle_difficulty(g, rnd) ==
    LET h == update_difficulty_settings(
                 [g EXCEPT !.current_difficulty = (g.current_difficulty + 1) % 3])
    IN  IF ~h.game_over THEN reset_game(h, rnd) ELSE h

handle_key_pause_first(g, key, rnd) ==
    IF key = "m" THEN
        LET h == [g EXCEPT !.single_player = ~g.single_player]
        IN  IF ~h.game_over THEN reset_game(h, rnd) ELSE h
    ELSE IF key = "d" THEN cycle_difficulty(g, rnd)
    ELSE IF key = " " THEN [g EXCEPT !.paused = ~g.paused]
    ELSE IF g.game_over THEN
        IF key = "r" THEN reset_game(g, rnd) ELSE g
    ELSE IF key \in MoveKeys THEN
        LET opposite == CASE key = "w" -> "s" [] key = "s" -> "w"
                          [] key = "up" -> "down" [] key = "down" -> "up"
        IN  [g EXCEPT !.key_states = [g.key_states EXCEPT ![opposite] = FALSE, ![key] = TRUE],
                      !.key_age = [g.key_age EXCEPT ![key] = 0],
                      !.continuous_keys = g.continuous_keys \cup {key}]
    ELSE g

\* one key event of handle_input's getch loop (every key but q, which returns)
handle_key_always_resets(g, key, rnd) ==
    IF key = "m" THEN reset_game([g EXCEPT !.single_player = ~g.single_player], rnd)
    ELSE IF key = "d" THEN cycle_difficulty(g, rnd)
    ELSE IF g.game_over THEN
        IF key = "r" THEN reset_game(g, rnd) ELSE g
    ELSE IF key = " " THEN [g EXCEPT !.paused = ~g.paused]
    ELSE IF key \in MoveKeys THEN
        LET opposite == CASE key = "w" -> "s" [] key = "s" -> "w"
                          [] key = "up" -> "down" [] key = "down" -> "up"
        IN  [g EXCEPT !.key_states = [g.key_states EXCEPT ![opposite] = FALSE, ![key] = TRUE],
                      !.key_age = [g.key_age EXCEPT ![key] = 0],
                      !.continuous_keys = g.continuous_keys \cup {key}]
    ELSE g

handle_key(g, key, rnd) ==
    IF key = "m" THEN
        LET h == [g EXCEPT !.single_player = ~g.single_player]
        IN  IF ~h.game_over THEN reset_game(h, rnd) ELSE h
    ELSE IF key = "d" THEN cycle_difficulty(g, rnd)
    ELSE IF g.game_over THEN
        IF key = "r" THEN reset_game(g, rnd) ELSE g
    ELSE IF key = " " THEN [g EXCEPT !.paused = ~g.paused]
    ELSE IF key \in MoveKeys THEN
        LET opposite == CASE key = "w" -> "s" [] key = "s" -> "w"
                          [] key = "up" -> "down" [] key = "down" -> "up"
        IN  [g EXCEPT !.key_states = [g.key_states EXCEPT ![opposite] = FALSE, ![key] = TRUE],
                      !.key_age = [g.key_age EXCEPT ![key] = 0],
                      !.continuous_keys = g.continuous_keys \cup {key}]
    ELSE g

\* the getch loop: [g, quit]
RECURSIVE handle_keys(_, _, _)
handle_keys(g, batch, rnd) ==
    IF batch = <<>> THEN [g |-> g, quit |-> FALSE]
    ELSE IF Head(batch) = "q" THEN [g |-> g, quit |-> TRUE]
    ELSE handle_keys(handle_key(g, Head(batch), rnd), Tail(batch), rnd)

\* timeout-based release detection over continuous_keys
key_held_short(g, k) == g.key_age[k] < key_timeout

key_held(g, k) == ~(g.key_age[k] > key_timeout)

release_keys(g) ==
    [g EXCEPT !.key_states = [k \in MoveKeys |->
                                 IF k \in g.continuous_keys THEN key_held(g, k)
                                 ELSE g.key_states[k]],
              !.continuous_keys = { k \in g.continuous_keys : key_held(g, k) }]

movement_state_always(g) ==
    [g EXCEPT !.p1_moving_up = g.key_states["w"],
              !.p1_moving_down = g.key_states["s"],
              !.p2_moving_up = IF ~g.single_player THEN g.key_states["up"] ELSE FALSE,
              !.p2_moving_down = IF ~g.single_player THEN g.key_states["down"] ELSE FALSE]

\* movement state from the key states
movement_state(g) ==
    IF ~g.game_over /\ ~g.paused THEN
        [g EXCEPT !.p1_moving_up = g.key_states["w"],
                  !.p1_moving_down = g.key_states["s"],
                  !.p2_moving_up = IF ~g.single_player THEN g.key_states["up"] ELSE FALSE,
                  !.p2_moving_down = IF ~g.single_player THEN g.key_states["down"] ELSE FALSE]
    ELSE
        [g EXCEPT !.p1_moving_up = FALSE, !.p1_moving_down = FALSE,
                  !.p2_moving_up = FALSE, !.p2_moving_down = FALSE]

\* handle_input: [g, quit]; q returns at once, before the release loop
handle_input(g, batch, rnd) ==
    LET r == handle_keys(g, batch, rnd)
    IN  IF r.quit THEN r
        ELSE [g |-> movement_state(release_keys(r.g)), quit |-> FALSE]

\* time passing between two reads of time.time()
Older(a, dt) == Min(a + dt, AgeCap)

advance(g, dt) ==
    [g EXCEPT !.ball_age = Older(g.ball_age, dt),
              !.paddle_age = Older(g.paddle_age, dt),
              !.key_age = [k \in MoveKeys |-> Older(g.key_age[k], dt)]]

\* ---- paddles
in_bounds(y) == paddle_min <= y /\ y <= paddle_max

accelerate_to_top_speed(v, target, accel, dt) ==
    LET diff == target - v
    IN  IF Abs(diff) > 100 THEN
            LET v1 == v + accel * dt * (IF diff > 0 THEN 1 ELSE -1)
            IN  Max(-paddle_speed, Min(v1, paddle_speed))
        ELSE target

accelerate_unclamped(v, target, accel, dt) ==
    LET diff == target - v
    IN  IF Abs(diff) > 100 THEN v + accel * dt * (IF diff > 0 THEN 1 ELSE -1) ELSE target

\* smooth acceleration/deceleration toward target, dt in ms
accelerate(v, target, accel, dt) ==
    LET diff == target - v
    IN  IF Abs(diff) > 100 THEN
            LET v1 == v + accel * dt * (IF diff > 0 THEN 1 ELSE -1)
            IN  IF (diff > 0 /\ v1 > target) \/ (diff < 0 /\ v1 < target) THEN target ELSE v1
        ELSE target

move_clamped(y, v, dt) ==
    LET new_y == y + v * dt
    IN  IF in_bounds(new_y) THEN <<new_y, v>>
        ELSE <<Max(paddle_min, Min(new_y, paddle_max)), 0>>

move_unchecked(y, v, dt) == <<y + v * dt, v>>

\* position update with the boundary check: <<y, velocity>>
move(y, v, dt) ==
    LET new_y == y + v * dt
    IN  IF in_bounds(new_y) THEN <<new_y, v>> ELSE <<y, 0>>

target_velocity(up, down) ==
    IF up THEN -paddle_speed ELSE IF down THEN paddle_speed ELSE 0

update_paddle_movement_both(g) ==
    LET dt == Min(g.paddle_age, dt_cap)
        v1 == accelerate(g.p1_velocity, target_velocity(g.p1_moving_up, g.p1_moving_down),
                         paddle_acceleration, dt)
        m1 == move(g.p1_y, v1, dt)
        v2 == accelerate(g.p2_velocity, target_velocity(g.p2_moving_up, g.p2_moving_down),
                         paddle_acceleration, dt)
        m2 == move(g.p2_y, v2, dt)
    IN  [g EXCEPT !.paddle_age = 0, !.p1_y = m1[1], !.p1_velocity = m1[2],
                  !.p2_y = m2[1], !.p2_velocity = m2[2]]

update_paddle_movement(g) ==
    LET dt == Min(g.paddle_age, dt_cap)
        v1 == accelerate(g.p1_velocity, target_velocity(g.p1_moving_up, g.p1_moving_down),
                         paddle_acceleration, dt)
        m1 == move(g.p1_y, v1, dt)
        v2 == accelerate(g.p2_velocity, target_velocity(g.p2_moving_up, g.p2_moving_down),
                         paddle_acceleration, dt)
        m2 == move(g.p2_y, v2, dt)
        h == [g EXCEPT !.paddle_age = 0, !.p1_y = m1[1], !.p1_velocity = m1[2]]
    IN  IF ~g.single_player THEN [h EXCEPT !.p2_y = m2[1], !.p2_velocity = m2[2]] ELSE h

\* ---- AI
\* random.random() < 0.1 then random.uniform(-2, 2); 0 is the branch not taken
Noise == {0, -2000, 2000}

predicted_y_unscaled(g, noise) ==
    IF g.ball_dx > 0 THEN
        LET time_to_paddle == TruncDiv((p2_x * Cell - g.ball_x) * 1000, Abs(g.ball_dx))
        IN  g.ball_y + TruncDiv(g.ball_dy * time_to_paddle, 1000) + noise
    ELSE (height \div 2) * Cell

predicted_y(g, noise) ==
    IF g.ball_dx > 0 THEN
        LET time_to_paddle == TruncDiv((p2_x * Cell - g.ball_x) * 1000, Abs(g.ball_dx))
        IN  g.ball_y
            + TruncDiv(TruncDiv(g.ball_dy * time_to_paddle, 1000) * g.ai_prediction, 1000)
            + noise
    ELSE (height \div 2) * Cell

ai_target_velocity(g, noise) ==
    LET paddle_center == g.p2_y + (paddle_height \div 2) * PCell
        distance_to_target == predicted_y(g, noise) * 1000 - paddle_center
        max_ai_speed == (paddle_speed * g.ai_speed) \div 1000
        scaled == (max_ai_speed * (Min(Abs(distance_to_target), 3 * PCell) \div 1000)) \div 3000
    IN  IF Abs(distance_to_target) > PCell \div 2
        THEN (IF distance_to_target > 0 THEN scaled ELSE -scaled)
        ELSE 0

update_ai_paddle_human_accel(g, noise) ==
    IF ~g.single_player \/ g.paused \/ g.game_over THEN g
    ELSE
        LET dt == Min(g.paddle_age, dt_cap)
            v == accelerate(g.p2_velocity, ai_target_velocity(g, noise), paddle_acceleration, dt)
            m == move(g.p2_y, v, dt)
        IN  [g EXCEPT !.p2_y = m[1], !.p2_velocity = m[2]]

update_ai_paddle(g, noise) ==
    IF ~g.single_player \/ g.paused \/ g.game_over THEN g
    ELSE
        LET dt == Min(g.paddle_age, dt_cap)
            v == accelerate(g.p2_velocity, ai_target_velocity(g, noise), ai_acceleration, dt)
            m == move(g.p2_y, v, dt)
        IN  [g EXCEPT !.p2_y = m[1], !.p2_velocity = m[2]]

\* ---- ball
gate_open_late(g) == g.ball_age > g.ball_speed

gate_open(g) == ~(g.ball_age < g.ball_speed)

\* wall collision: <<y, dy, hit>>
wall_hit(y) == y <= 1 * Cell \/ y >= (height - 2) * Cell

wall_bounce_onto_wall(y, dy) ==
    IF wall_hit(y) THEN <<Max(1 * Cell, Min(y, (height - 2) * Cell)), -dy, TRUE>>
    ELSE <<y, dy, FALSE>>

wall_bounce_unclamped(y, dy) ==
    IF y <= 1 * Cell \/ y >= (height - 2) * Cell THEN <<y, -dy, TRUE>> ELSE <<y, dy, FALSE>>

wall_bounce(y, dy) ==
    IF wall_hit(y) THEN <<Max(2 * Cell, Min(y, (height - 3) * Cell)), -dy, TRUE>>
    ELSE <<y, dy, FALSE>>

\* hit_pos in 1/1000: (ball_int_y - p_int_y) / (paddle_height - 1)
hit_pos(ball_int_y, p_int_y) == ((ball_int_y - p_int_y) * 1000) \div (paddle_height - 1)

angle_modifier_wide(hp) == hp - 500

\* angle_modifier = (hit_pos - 0.5) * 0.5
angle_modifier(hp) == TruncDiv((hp - 500) * 500, 1000)

left_hit_ungated(bx, by, dx, py) ==
    LET ball_int_x == PyRound(bx, Cell)
        ball_int_y == PyRound(by, Cell)
        p1_int_y == PyRound(py, PCell)
    IN  /\ ball_int_x <= p1_x + paddle_width
        /\ p1_int_y <= ball_int_y /\ ball_int_y <= p1_int_y + paddle_height - 1

left_hit(bx, by, dx, py) ==
    LET ball_int_x == PyRound(bx, Cell)
        ball_int_y == PyRound(by, Cell)
        p1_int_y == PyRound(py, PCell)
    IN  /\ ball_int_x <= p1_x + paddle_width
        /\ p1_int_y <= ball_int_y /\ ball_int_y <= p1_int_y + paddle_height - 1
        /\ dx < 0

right_hit(bx, by, dx, py) ==
    LET ball_int_x == PyRound(bx, Cell)
        ball_int_y == PyRound(by, Cell)
        p2_int_y == PyRound(py, PCell)
    IN  /\ ball_int_x >= p2_x - 1
        /\ p2_int_y <= ball_int_y /\ ball_int_y <= p2_int_y + paddle_height - 1
        /\ dx > 0

collide_speeding_up(g) ==
    LET mx == g.ball_x + g.ball_dx
        my == g.ball_y + g.ball_dy
        w == wall_bounce(my, g.ball_dy)
        lh == left_hit(mx, w[1], g.ball_dx, g.p1_y)
        dx1 == IF lh THEN Abs(g.ball_dx) + 100 ELSE g.ball_dx
        hp1 == hit_pos(PyRound(w[1], Cell), PyRound(g.p1_y, PCell))
        dy1 == IF lh THEN w[2] + angle_modifier(hp1) ELSE w[2]
        rh == right_hit(mx, w[1], dx1, g.p2_y)
        dx2 == IF rh THEN -Abs(dx1) - 100 ELSE dx1
        hp2 == hit_pos(PyRound(w[1], Cell), PyRound(g.p2_y, PCell))
        dy2 == IF rh THEN dy1 + angle_modifier(hp2) ELSE dy1
    IN  [ stepped |-> TRUE, mx |-> mx, my |-> my, dx0 |-> g.ball_dx, dy0 |-> g.ball_dy,
          wall |-> w[3], wy |-> w[1], wdy |-> w[2],
          lhit |-> lh, rhit |-> rh,
          lpos |-> IF lh THEN hp1 ELSE -1, rpos |-> IF rh THEN hp2 ELSE -1,
          dx |-> dx2, dy |-> dy2 ]

\* the collision part of update_ball on the moved ball: a trace record
collide(g) ==
    LET mx == g.ball_x + g.ball_dx
        my == g.ball_y + g.ball_dy
        w == wall_bounce(my, g.ball_dy)
        lh == left_hit(mx, w[1], g.ball_dx, g.p1_y)
        dx1 == IF lh THEN Abs(g.ball_dx) ELSE g.ball_dx
        hp1 == hit_pos(PyRound(w[1], Cell), PyRound(g.p1_y, PCell))
        dy1 == IF lh THEN w[2] + angle_modifier(hp1) ELSE w[2]
        rh == right_hit(mx, w[1], dx1, g.p2_y)
        dx2 == IF rh THEN -Abs(dx1) ELSE dx1
        hp2 == hit_pos(PyRound(w[1], Cell), PyRound(g.p2_y, PCell))
        dy2 == IF rh THEN dy1 + angle_modifier(hp2) ELSE dy1
    IN  [ stepped |-> TRUE, mx |-> mx, my |-> my, dx0 |-> g.ball_dx, dy0 |-> g.ball_dy,
          wall |-> w[3], wy |-> w[1], wdy |-> w[2],
          lhit |-> lh, rhit |-> rh,
          lpos |-> IF lh THEN hp1 ELSE -1, rpos |-> IF rh THEN hp2 ELSE -1,
          dx |-> dx2, dy |-> dy2 ]

scores_left(x) == x < 0
scores_right(x) == x > width * Cell
reaches_target_late(score) == score > target_score

reaches_target(score) == score >= target_score

scoring_names_loser(g, rnd) ==
    IF g.ball_x < 0 THEN
        LET h == [g EXCEPT !.p2_score = g.p2_score + 1]
        IN  IF h.p2_score >= target_score
            THEN [h EXCEPT !.game_over = TRUE, !.winner = "Player 1"]
            ELSE reset_ball(h, rnd)
    ELSE IF g.ball_x > width * Cell THEN
        LET h == [g EXCEPT !.p1_score = g.p1_score + 1]
        IN  IF h.p1_score >= target_score
            THEN [h EXCEPT !.game_over = TRUE, !.winner = "Player 2"]
            ELSE reset_ball(h, rnd)
    ELSE g

scoring_swapped(g, rnd) ==
    IF g.ball_x < 0 THEN
        LET h == [g EXCEPT !.p1_score = g.p1_score + 1]
        IN  IF h.p1_score >= target_score
            THEN [h EXCEPT !.game_over = TRUE, !.winner = "Player 1"]
            ELSE reset_ball(h, rnd)
    ELSE IF g.ball_x > width * Cell THEN
        LET h == [g EXCEPT !.p2_score = g.p2_score + 1]
        IN  IF h.p2_score >= target_score
            THEN [h EXCEPT !.game_over = TRUE, !.winner = "Player 2"]
            ELSE reset_ball(h, rnd)
    ELSE g

scoring(g, rnd) ==
    IF scores_left(g.ball_x) THEN
        LET h == [g EXCEPT !.p2_score = g.p2_score + 1]
        IN  IF reaches_target(h.p2_score)
            THEN [h EXCEPT !.game_over = TRUE, !.winner = "Player 2"]
            ELSE reset_ball(h, rnd)
    ELSE IF scores_right(g.ball_x) THEN
        LET h == [g EXCEPT !.p1_score = g.p1_score + 1]
        IN  IF reaches_target(h.p1_score)
            THEN [h EXCEPT !.game_over = TRUE, !.winner = "Player 1"]
            ELSE reset_ball(h, rnd)
    ELSE g

update_ball(g, rnd) ==
    IF ~gate_open(g) THEN g
    ELSE
        LET c == collide(g)
        IN  scoring([g EXCEPT !.ball_age = 0, !.ball_x = c.mx, !.ball_y = c.wy,
                              !.ball_dx = c.dx, !.ball_dy = c.dy], rnd)

NoTrace ==
    [ stepped |-> FALSE, mx |-> 0, my |-> 0, dx0 |-> 0, dy0 |-> 0, wall |-> FALSE, wy |-> 0, wdy |-> 0,
      lhit |-> FALSE, rhit |-> FALSE, lpos |-> -1, rpos |-> -1, dx |-> 0, dy |-> 0 ]

ball_trace(g) == IF gate_open(g) THEN collide(g) ELSE NoTrace

\* ------------------------------------------------------- CrossPlatformPong
\* paddle positions are whole cells, kept in the same unit as PongGame's
x_paddle_start == (x_height \div 2 - paddle_height \div 2) * PCell
x_p1_x == 2
x_p2_x == x_width - 3
x_paddle_max == (x_height - paddle_height - 2) * PCell

x_reset_ball(g, rnd) ==
    [g EXCEPT !.ball_x = (x_width \div 2) * Cell,
              !.ball_y = (x_height \div 2) * Cell,
              !.ball_dx = TruncDiv(x_speed * rnd[1], 1000),
              !.ball_dy = TruncDiv(x_speed * rnd[2], 1000)]

x_reset_game(g, rnd) ==
    LET h == [g EXCEPT !.p1_y = x_paddle_start, !.p1_score = 0,
                       !.p2_y = x_paddle_start, !.p2_score = 0]
    IN  [x_reset_ball(h, rnd) EXCEPT !.game_over = FALSE, !.winner = "None"]

x_in_bounds(y) == 1 * PCell <= y /\ y <= x_paddle_max

move_paddle(g, player, direction) ==
    IF player = 1 THEN
        LET new_y == g.p1_y + direction * PCell
        IN  IF x_in_bounds(new_y) THEN [g EXCEPT !.p1_y = new_y] ELSE g
    ELSE
        LET new_y == g.p2_y + direction * PCell
        IN  IF x_in_bounds(new_y) THEN [g EXCEPT !.p2_y = new_y] ELSE g

x_predicted_y(g, noise) ==
    IF g.ball_dx > 0 THEN
        LET time_to_paddle == TruncDiv((x_p2_x * Cell - g.ball_x) * 1000, Abs(g.ball_dx))
        IN  g.ball_y
            + TruncDiv(TruncDiv(g.ball_dy * time_to_paddle, 1000) * g.ai_prediction, 1000)
            + noise
    ELSE (x_height \div 2) * Cell

\* moves: the draw random.random() < self.ai_speed
x_update_ai_paddle(g, noise, moves) ==
    IF ~g.single_player \/ g.paused \/ g.game_over THEN g
    ELSE
        LET paddle_center == g.p2_y + (paddle_height \div 2) * PCell
            predicted == x_predicted_y(g, noise) * 1000
        IN  IF Abs(predicted - paddle_center) > PCell \div 2 /\ moves
            THEN move_paddle(g, 2, IF predicted > paddle_center THEN 1 ELSE -1)
            ELSE g

\* wall collision: <<y, dy, hit>>
x_wall_bounce(y, dy) ==
    IF y <= 1 * Cell \/ y >= (x_height - 2) * Cell
    THEN <<Max(2 * Cell, Min(y, (x_height - 3) * Cell)), -dy, TRUE>>
    ELSE <<y, dy, FALSE>>

x_left_hit(bx, by, dx, py) ==
    LET ball_int_x == PyRound(bx, Cell)
        ball_int_y == PyRound(by, Cell)
    IN  /\ ball_int_x <= x_p1_x + 1
        /\ py \div PCell <= ball_int_y /\ ball_int_y <= py \div PCell + paddle_height - 1
        /\ dx < 0

x_right_hit(bx, by, dx, py) ==
    LET ball_int_x == PyRound(bx, Cell)
        ball_int_y == PyRound(by, Cell)
    IN  /\ ball_int_x >= x_p2_x - 1
        /\ py \div PCell <= ball_int_y /\ ball_int_y <= py \div PCell + paddle_height - 1
        /\ dx > 0

\* hit_pos in 1/1000 and the change (hit_pos - 0.5) * 0.5 of dy
x_hit_pos(ball_int_y, p_y) == ((ball_int_y - p_y) * 1000) \div (paddle_height - 1)
x_deflection(hp) == TruncDiv((hp - 500) * 500, 1000)

\* the collision part of CrossPlatformPong.update_ball: the right paddle is
\* tested only when the left paddle was not hit (elif)
x_collide(g) ==
    LET mx == g.ball_x + g.ball_dx
        my == g.ball_y + g.ball_dy
        w == x_wall_bounce(my, g.ball_dy)
        lh == x_left_hit(mx, w[1], g.ball_dx, g.p1_y)
        rh == ~lh /\ x_right_hit(mx, w[1], g.ball_dx, g.p2_y)
        hp1 == x_hit_pos(PyRound(w[1], Cell), g.p1_y \div PCell)
        hp2 == x_hit_pos(PyRound(w[1], Cell), g.p2_y \div PCell)
    IN  [ stepped |-> TRUE, mx |-> mx, my |-> my, dx0 |-> g.ball_dx, dy0 |-> g.ball_dy,
          wall |-> w[3], wy |-> w[1], wdy |-> w[2],
          lhit |-> lh, rhit |-> rh,
          lpos |-> IF lh THEN hp1 ELSE -1, rpos |-> IF rh THEN hp2 ELSE -1,
          dx |-> IF lh THEN Abs(g.ball_dx) ELSE IF rh THEN -Abs(g.ball_dx) ELSE g.ball_dx,
          dy |-> IF lh THEN w[2] + x_deflection(hp1)
                 ELSE IF rh THEN w[2] + x_deflection(hp2) ELSE w[2] ]

x_scoring(g, rnd) ==
    IF g.ball_x < 0 THEN
        LET h == [g EXCEPT !.p2_score = g.p2_score + 1]
        IN  IF h.p2_score >= target_score
            THEN [h EXCEPT !.game_over = TRUE,
                           !.winner = IF g.single_player THEN "Computer" ELSE "Player 2"]
            ELSE x_reset_ball(h, rnd)
    ELSE IF g.ball_x > x_width * Cell THEN
        LET h == [g EXCEPT !.p1_score = g.p1_score + 1]
        IN  IF h.p1_score >= target_score
            THEN [h EXCEPT !.game_over = TRUE,
                           !.winner = IF g.single_player THEN "You" ELSE "Player 1"]
            ELSE x_reset_ball(h, rnd)
    ELSE g

x_update_ball(g, rnd) ==
    LET c == x_collide(g)
    IN  x_scoring([g EXCEPT !.ball_x = c.mx, !.ball_y = c.wy,
                            !.ball_dx = c.dx, !.ball_dy = c.dy], rnd)

\* Queue.put at the tail (add_key), with the LIFO variant before it
enqueue_front(queue, key) == <<key>> \o queue

enqueue(queue, key) == Append(queue, key)

\* one key taken from the queue (every key but q, which returns)
x_handle_key(g, key, rnd) ==
    IF key = "m" THEN
        LET h == [g EXCEPT !.single_player = ~g.single_player]
        IN  IF ~h.game_over THEN x_reset_game(h, rnd) ELSE h
    ELSE IF key = "r" /\ g.game_over THEN x_reset_game(g, rnd)
    ELSE IF key = "space" THEN [g EXCEPT !.paused = ~g.paused]
    ELSE IF ~g.game_over THEN
        IF key = "w" THEN move_paddle(g, 1, -1)
        ELSE IF key = "s" THEN move_paddle(g, 1, 1)
        ELSE IF ~g.single_player THEN
            IF key \in {"up", "k"} THEN move_paddle(g, 2, -1)
            ELSE IF key \in {"down", "j"} THEN move_paddle(g, 2, 1)
            ELSE g
        ELSE g
    ELSE g

\* while not self.input_queue.empty(): get_nowait() ...: [g, quit, queue]
RECURSIVE x_handle_input(_, _, _)
x_handle_input(g, queue, rnd) ==
    IF queue = <<>> THEN [g |-> g, quit |-> FALSE, queue |-> queue]
    ELSE IF Head(queue) = "q" THEN [g |-> g, quit |-> TRUE, queue |-> Tail(queue)]
    ELSE x_handle_input(x_handle_key(g, Head(queue), rnd), Tail(queue), rnd)

\* ------------------------------------------------------------ initial states
\* PongGame.__init__ up to the first reset_ball draw
Constructed(rnd) ==
    LET g0 == [ single_player |-> TRUE, current_difficulty |-> 1,
                ball_speed |-> ball_speeds[2], ai_speed |-> 0, ai_prediction |-> 0,
                p1_y |-> 0, p2_y |-> 0, p1_velocity |-> 0, p2_velocity |-> 0,
                p1_score |-> 0, p2_score |-> 0,
                p1_moving_up |-> FALSE, p1_moving_down |-> FALSE,
                p2_moving_up |-> FALSE, p2_moving_down |-> FALSE,
                ball_x |-> 0, ball_y |-> 0, ball_dx |-> 0, ball_dy |-> 0,
                ball_age |-> 0, paddle_age |-> 0,
                game_over |-> FALSE, winner |-> "None", paused |-> FALSE,
                key_states |-> [k \in MoveKeys |-> FALSE],
                key_age |-> [k \in MoveKeys |-> AgeCap],
                continuous_keys |-> {} ]
    IN  update_difficulty_settings(reset_game(g0, rnd))

\* A game in progress.  Points leave everything but the ball and one score
\* alone, the players put the paddles where they like and the ball crosses
\* the whole field, so the initial states also hold a few situations of a
\* running game: scores one point short of target_score, a ball about to
\* leave the field, to reach a wall or to reach a paddle, a paddle held
\* against its boundary at full speed.
Late == target_score - 1

\* <<ball_x, ball_y, ball_dx, ball_dy>> at Medium speed 2.0 (angle 0 or 3-4-5)
BallSituations ==
    { <<1 * Cell, 5 * Cell, -1600, 1200>>,                      \* leaves on the left
      <<(width - 1) * Cell + 500, 5 * Cell, 1600, -1200>>,      \* leaves on the right
      <<1 * Cell, (height \div 2) * Cell, -2000, 0>>,           \* behind paddle 1, in its span
      <<4 * Cell, (height \div 2 - 2) * Cell, -2000, 0>>,       \* paddle 1, top cell
      <<4 * Cell, (height \div 2 + 2) * Cell, -2000, 0>>,       \* paddle 1, bottom cell
      <<4 * Cell, (height \div 2 - 1) * Cell - 1200, -1600, 1200>>,
      <<(width - 5) * Cell, (height \div 2 - 1) * Cell, 2000, 0>>,
      <<(width - 5) * Cell, (height \div 2 + 1) * Cell, 2000, 0>>,
      <<(width - 5) * Cell, (height \div 2 + 2) * Cell + 1200, 1600, -1200>>,
      <<(width \div 2) * Cell, 2 * Cell, 1600, -1200>>,         \* top wall
      <<(width \div 2) * Cell, (height - 3) * Cell, -1600, 1200>>,  \* bottom wall
      <<(width - 8) * Cell, 3 * Cell, 1600, -1200>> }           \* high, toward the AI

with_ball(g, b) ==
    [g EXCEPT !.ball_x = b[1], !.ball_y = b[2], !.ball_dx = b[3], !.ball_dy = b[4]]

with_scores(g, single, s1, s2) ==
    [g EXCEPT !.single_player = single, !.p1_score = s1, !.p2_score = s2]

\* "w" held: paddle 1 against the top boundary at full speed; paddle 2 at the
\* bottom boundary, moving down
held_w(g) ==
    [g EXCEPT !.p1_y = paddle_min, !.p1_velocity = -paddle_speed, !.p1_moving_up = TRUE,
              !.p2_y = paddle_max, !.p2_velocity = paddle_speed \div 2,
              !.key_states = [g.key_states EXCEPT !["w"] = TRUE],
              !.key_age = [g.key_age EXCEPT !["w"] = 0],
              !.continuous_keys = {"w"}]

\* "w" held with both paddles a tenth of a cell short of their boundaries
held_w_near(g) ==
    [held_w(g) EXCEPT !.p1_y = paddle_min + PCell \div 10,
                      !.p2_y = paddle_max - PCell \div 10]

\* paddle 1 moving down in mid-field with "s" held
held_s(g) ==
    [g EXCEPT !.p1_velocity = paddle_speed, !.p1_moving_down = TRUE,
              !.key_states = [g.key_states EXCEPT !["s"] = TRUE],
              !.key_age = [g.key_age EXCEPT !["s"] = 0],
              !.continuous_keys = {"s"}]

\* the key k was last pressed age ms ago
pressed_ago(g, k, age) == [g EXCEPT !.key_age = [g.key_age EXCEPT ![k] = age]]

\* the game just won on the right edge
won(g, name, w) ==
    [g EXCEPT !.ball_x = w * Cell + 500, !.ball_y = 5 * Cell,
              !.game_over = TRUE, !.winner = name]

PongStarts ==
    { Constructed(rnd) : rnd \in BallStarts }
    \cup { with_ball(with_scores(Constructed(<<1000, 0>>), single, Late, Late), b) :
              single \in BOOLEAN, b \in BallSituations }
    \cup { held_w(with_ball(with_scores(Constructed(<<1000, 0>>), single, 3, Late), b)) :
              single \in BOOLEAN,
              b \in { <<(width \div 2) * Cell, (height - 3) * Cell, -1600, 1200>>,
                      <<(width - 8) * Cell, 3 * Cell, 1600, -1200>> } }
    \cup { held_w_near(with_scores(Constructed(<<1000, 0>>), single, 1, 1)) : single \in BOOLEAN }
    \cup { with_ball(with_scores(Constructed(<<1000, 0>>), TRUE, 1, 1), b) :
              b \in { <<1 * Cell, 5 * Cell, -1600, 1200>>,
                      <<(width - 1) * Cell + 500, 5 * Cell, 1600, -1200>>,
                      <<3 * Cell + 200, (height \div 2) * Cell, -2000, 0>>,
                      <<(width \div 2) * Cell, 3 * Cell, -1600, -5200>> } }
    \cup { held_s(Constructed(rnd)) : rnd \in { <<1000, 0>>, <<-800, 600>> } }
    \cup { pressed_ago(held_s(Constructed(<<1000, 0>>)), "s", 60) }
    \cup { held_s(with_ball(Constructed(<<1000, 0>>),
                            <<4 * Cell, (height \div 2 - 2) * Cell, -2000, 0>>)) }
    \cup { won(with_scores(Constructed(<<1000, 0>>), FALSE, target_score, 3), "Player 1", width) }

\* CrossPlatformPong.__init__ up to the first reset_ball draw
XConstructed(rnd) ==
    x_reset_game([Constructed(rnd) EXCEPT !.ball_speed = x_ball_speed,
                                          !.ai_speed = x_ai_speed,
                                          !.ai_prediction = x_ai_prediction], rnd)

\* <<ball_x, ball_y, ball_dx, ball_dy>> at speed 1.0
XBallSituations ==
    { <<500, 5 * Cell, -800, 600>>,                               \* leaves on the left
      <<x_width * Cell - 300, 5 * Cell, 800, -600>>,                \* leaves on the right
      <<500, (x_height \div 2) * Cell, -1000, 0>>,                  \* behind paddle 1, in its span
      <<4 * Cell, (x_height \div 2 - 2) * Cell, -1000, 0>>,
      <<4 * Cell, (x_height \div 2 + 2) * Cell, -1000, 0>>,
      <<4 * Cell, (x_height \div 2 - 1) * Cell - 600, -800, 600>>,
      <<(x_width - 5) * Cell, (x_height \div 2 + 1) * Cell, 1000, 0>>,
      <<(x_width - 5) * Cell, (x_height \div 2) * Cell, 1000, 0>>,
      <<(x_width \div 2) * Cell, 1 * Cell + 500, 800, -600>>,       \* top wall
      <<(x_width \div 2) * Cell, (x_height - 3) * Cell + 500, -800, 600>> }

CrossStarts ==
    { XConstructed(rnd) : rnd \in BallStarts }
    \cup { with_ball(with_scores(XConstructed(<<1000, 0>>), single, Late, Late), b) :
              single \in BOOLEAN, b \in XBallSituations }
    \cup { won(with_scores(XConstructed(<<1000, 0>>), TRUE, target_score, 3), "You", x_width) }

\* no pause in progress
NoPause == [st |-> "none", snap |-> <<>>, d1 |-> 0, d2 |-> 0]

\* a pause toggled on by a lone pause key, kept through ticks without keys and
\* ended by a lone pause key ("resumed") or by a lone mode or difficulty key
\* ("reset"): snap is the game before the pausing handle_input, d1 and d2 the
\* frame times of the pausing tick and of the tick that ends the pause
pause_history(g, batch, dt) ==
    IF batch = <<" ">> /\ ~g.paused /\ ~g.game_over
        THEN [st |-> "paused", snap |-> g, d1 |-> dt, d2 |-> 0]
    ELSE IF pz.st = "paused" /\ batch = <<>> THEN pz
    ELSE IF pz.st = "paused" /\ batch = <<" ">> THEN [pz EXCEPT !.st = "resumed", !.d2 = dt]
    ELSE IF pz.st = "paused" /\ batch \in { <<"m">>, <<"d">> } THEN [pz EXCEPT !.st = "reset", !.d2 = dt]
    ELSE NoPause

\* nothing put into the queue yet
NoKeys == [sent |-> <<>>, taken |-> <<>>]

\* no key held since the reset
NoHold == [elapsed |-> 0, stopped |-> FALSE, reached |-> FALSE]

\* the game object starts as g
StartsAs(g) ==
    /\ single_player = g.single_player
    /\ current_difficulty = g.current_difficulty
    /\ ball_speed = g.ball_speed
    /\ ai_speed = g.ai_speed
    /\ ai_prediction = g.ai_prediction
    /\ p1_y = g.p1_y
    /\ p2_y = g.p2_y
    /\ p1_velocity = g.p1_velocity
    /\ p2_velocity = g.p2_velocity
    /\ p1_score = g.p1_score
    /\ p2_score = g.p2_score
    /\ p1_moving_up = g.p1_moving_up
    /\ p1_moving_down = g.p1_moving_down
    /\ p2_moving_up = g.p2_moving_up
    /\ p2_moving_down = g.p2_moving_down
    /\ ball_x = g.ball_x
    /\ ball_y = g.ball_y
    /\ ball_dx = g.ball_dx
    /\ ball_dy = g.ball_dy
    /\ ball_age = g.ball_age
    /\ paddle_age = g.paddle_age
    /\ game_over = g.game_over
    /\ winner = g.winner
    /\ paused = g.paused
    /\ key_states = g.key_states
    /\ key_age = g.key_age
    /\ continuous_keys = g.continuous_keys

Init ==
    /\ pc = "input"
    /\ ticks = 0
    /\ read = <<>>
    /\ bt = NoTrace
    /\ pz = NoPause
    /\ hold = NoHold
    /\ chan = NoKeys
    /\ last_hit = "none"
    /\ input_queue = <<>>
    /\ variant \in {"curses", "cross"}
    /\ \E g \in IF variant = "curses" THEN PongStarts ELSE CrossStarts : StartsAs(g)

\* ------------------------------------------------------------------ actions
\* the stage run() executes after stage; playing: not game_over and not paused
next_stage_paddles_first(stage, playing) ==
    CASE stage = "input" -> IF playing THEN "ai" ELSE "draw"
      [] stage = "ai" -> "paddle"
      [] stage = "paddle" -> "ball"
      [] stage = "ball" -> "draw"
      [] stage = "draw" -> "input"

next_stage_always_plays(stage, playing) ==
    CASE stage = "input" -> "ball"
      [] stage = "ball" -> "ai"
      [] stage = "ai" -> "paddle"
      [] stage = "paddle" -> "draw"
      [] stage = "draw" -> "input"

next_stage(stage, playing) ==
    CASE stage = "input" -> IF playing THEN "ball" ELSE "draw"
      [] stage = "ball" -> "ai"
      [] stage = "ai" -> "paddle"
      [] stage = "paddle" -> "draw"
      [] stage = "draw" -> "input"

x_next_stage(stage, playing) ==
    CASE stage = "input" -> IF playing THEN "ball" ELSE "draw"
      [] stage = "ball" -> "ai"
      [] stage = "ai" -> "draw"
      [] stage = "draw" -> "input"

\* whether the keys of one handle_input call reset the ball: m and d outside
\* GameOver, r in GameOver; q ends the call
RECURSIVE keys_reset(_, _)
keys_reset(over, batch) ==
    IF batch = <<>> \/ Head(batch) = "q" THEN FALSE
    ELSE IF Head(batch) \in {"m", "d"} /\ ~over THEN TRUE
    ELSE IF Head(batch) = "r" /\ over THEN TRUE
    ELSE keys_reset(over, Tail(batch))

RECURSIVE x_keys_reset(_, _)
x_keys_reset(over, queue) ==
    IF queue = <<>> \/ Head(queue) = "q" THEN FALSE
    ELSE IF Head(queue) = "m" /\ ~over THEN TRUE
    ELSE IF Head(queue) = "r" /\ over THEN TRUE
    ELSE x_keys_reset(over, Tail(queue))

\* the paddle that hit the ball last: none after a reset of the ball
hit_history(last, trace, reset) ==
    IF reset THEN "none"
    ELSE IF trace.lhit THEN "left"
    ELSE IF trace.rhit THEN "right"
    ELSE last

\* the random draws a step can make: reset_ball draws only when it is called,
\* the AI draws its noise only for a ball that comes toward it
Draws(resets) == IF resets THEN BallStarts ELSE { <<1000, 0>> }
leaves_field(x) == scores_left(x) \/ scores_right(x)
x_leaves_field(x) == x < 0 \/ x > x_width * Cell
NoiseDraws ==
    IF single_player /\ ~paused /\ ~game_over /\ ball_dx > 0 THEN Noise ELSE {0}

Keys == {"q", "m", "d", "r", " ", "w", "s", "up", "down"}
\* the keys getch() returns in one handle_input call
Batches ==
    { <<>> } \cup { <<k>> : k \in Keys } \cup { <<"w", "s">>, <<" ", "r">>, <<"d", "d", "d">> }
\* time from one handle_input to the next, ms
Frames == {20, 100}

\* run(): handle_input at the top of the loop
HandleInput ==
    /\ variant = "curses"
    /\ pc = "input"
    /\ ticks < MaxTicks
    /\ \E batch \in Batches, dt \in Frames :
        \E rnd \in Draws(\E i \in 1..Len(batch) : batch[i] \in {"m", "d", "r"}) :
            LET r == handle_input(advance(Cur, dt), batch, rnd)
            IN  /\ Commit(r.g)
                /\ pc' = IF r.quit THEN "done"
                         ELSE next_stage("input", ~r.g.game_over /\ ~r.g.paused)
                /\ pz' = pause_history(Cur, batch, dt)
                /\ read' = batch
    /\ bt' = NoTrace
    /\ last_hit' = IF keys_reset(game_over, read') THEN "none" ELSE last_hit
    /\ UNCHANGED <<variant, ticks, input_queue, hold, chan>>

UpdateBall ==
    /\ variant = "curses"
    /\ pc = "ball"
    /\ \E rnd \in Draws(gate_open(Cur) /\ leaves_field(ball_x + ball_dx)) :
          Commit(update_ball(Cur, rnd))
    /\ bt' = ball_trace(Cur)
    /\ last_hit' = hit_history(last_hit, bt', bt'.stepped /\ leaves_field(bt'.mx) /\ ~game_over')
    /\ read' = <<>>
    /\ pc' = next_stage("ball", TRUE)
    /\ UNCHANGED <<variant, ticks, input_queue, pz, hold, chan>>

UpdateAIPaddle ==
    /\ variant = "curses"
    /\ pc = "ai"
    /\ \E noise \in NoiseDraws : Commit(update_ai_paddle(Cur, noise))
    /\ pc' = next_stage("ai", TRUE)
    /\ UNCHANGED <<variant, ticks, input_queue, hvars>>

\* run(): update_paddle_movement under its second "not game_over and not paused"
UpdatePaddleMovement ==
    /\ variant = "curses"
    /\ pc = "paddle"
    /\ Commit(IF ~game_over /\ ~paused THEN update_paddle_movement(Cur) ELSE Cur)
    /\ pc' = next_stage("paddle", TRUE)
    /\ UNCHANGED <<variant, ticks, input_queue, hvars>>

Draw ==
    /\ variant = "curses"
    /\ pc = "draw"
    /\ pc' = next_stage("draw", TRUE)
    /\ ticks' = ticks + 1
    /\ pz' = IF pz.st \in {"resumed", "reset"} THEN NoPause ELSE pz
    /\ read' = <<>>
    /\ UNCHANGED <<variant, gvars, input_queue, bt, hold, chan, last_hit>>

\* the keys start_keyboard_input registers; "k" acts as "up", "down" as "j",
\* and "d" like "a" is handled by no branch of handle_input
XKeys == {"q", "m", "r", "space", "w", "s", "up", "j", "a"}

\* add_key, called by the keyboard listener at any moment.  Only handle_input
\* reads the queue, so an add_key during update_ball, update_ai_paddle or
\* draw_game commutes with them: the keys arrive while the loop is at
\* handle_input.
AddKey ==
    /\ variant = "cross"
    /\ pc = "input"
    /\ ticks < MaxTicks
    /\ Len(input_queue) < MaxQueue
    /\ \E key \in XKeys : input_queue' = enqueue(input_queue, key)
    /\ UNCHANGED <<variant, pc, ticks, gvars, hvars>>

XHandleInput ==
    /\ variant = "cross"
    /\ pc = "input"
    /\ ticks < MaxTicks
    /\ \E rnd \in Draws(\E i \in 1..Len(input_queue) : input_queue[i] \in {"m", "r"}) :
        LET r == x_handle_input(Cur, input_queue, rnd)
        IN  /\ Commit(r.g)
            /\ input_queue' = r.queue
            /\ pc' = IF r.quit THEN "done"
                     ELSE x_next_stage("input", ~r.g.game_over /\ ~r.g.paused)
    /\ bt' = NoTrace
    /\ last_hit' = IF x_keys_reset(game_over, input_queue) THEN "none" ELSE last_hit
    /\ UNCHANGED <<variant, ticks, read, pz, hold, chan>>

XUpdateBall ==
    /\ variant = "cross"
    /\ pc = "ball"
    /\ \E rnd \in Draws(x_leaves_field(ball_x + ball_dx)) : Commit(x_update_ball(Cur, rnd))
    /\ bt' = x_collide(Cur)
    /\ last_hit' = hit_history(last_hit, bt', x_leaves_field(bt'.mx) /\ ~game_over')
    /\ pc' = x_next_stage("ball", TRUE)
    /\ UNCHANGED <<variant, ticks, input_queue, read, pz, hold, chan>>

XUpdateAIPaddle ==
    /\ variant = "cross"
    /\ pc = "ai"
    /\ \E noise \in NoiseDraws, moves \in BOOLEAN :
          Commit(x_update_ai_paddle(Cur, noise, moves))
    /\ pc' = x_next_stage("ai", TRUE)
    /\ UNCHANGED <<variant, ticks, input_queue, hvars>>

XDraw ==
    /\ variant = "cross"
    /\ pc = "draw"
    /\ pc' = x_next_stage("draw", TRUE)
    /\ ticks' = ticks + 1
    /\ UNCHANGED <<variant, gvars, input_queue, hvars>>

Next ==
    \/ HandleInput
    \/ UpdateBall
    \/ UpdateAIPaddle
    \/ UpdatePaddleMovement
    \/ Draw
    \/ AddKey
    \/ XHandleInput
    \/ XUpdateBall
    \/ XUpdateAIPaddle
    \/ XDraw

Spec == Init /\ [][Next]_vars

\* --------------------------------------------------- the held-down scenario
\* Player 1 holds "s" from a freshly reset game: every tick reads an "s" (the
\* keyboard's auto-repeat) and steps the paddles, until MaxHold ms have passed.
\* The ball advance and the AI step of these ticks read and write neither
\* paddle 1 nor the key states, and no point ends the game within the time
\* held, so they are left out of the scenario.
HoldFrames == {20, 50, 100}

InitHold ==
    /\ variant = "curses"
    /\ pc = "input"
    /\ ticks = 0
    /\ read = <<>>
    /\ bt = NoTrace
    /\ pz = NoPause
    /\ hold = NoHold
    /\ chan = NoKeys
    /\ last_hit = "none"
    /\ input_queue = <<>>
    /\ \E rnd \in { <<1000, 0>>, <<-800, 600>> } : StartsAs(Constructed(rnd))

HoldDownTick ==
    /\ pc = "input"
    /\ \E dt \in HoldFrames :
        /\ hold.elapsed + dt <= MaxHold
        /\ LET g1 == handle_input(advance(Cur, dt), <<"s">>, <<1000, 0>>).g
               g2 == update_paddle_movement(g1)
           IN  /\ Commit(g2)
               /\ hold' = [elapsed |-> hold.elapsed + dt,
                           stopped |-> hold.stopped \/ g2.p1_y = g1.p1_y,
                           reached |-> hold.reached \/ g2.p1_velocity = paddle_speed]
    /\ UNCHANGED <<variant, pc, ticks, input_queue, read, bt, pz, chan, last_hit>>

NextHold == HoldDownTick

SpecHold == InitHold /\ [][NextHold]_vars

\* ------------------------------------------------------- the queue scenario
\* The cross-platform game with handle_input's drain loop taken apart: the
\* keyboard listener thread calls add_key at any moment, also between the
\* loop's input_queue.empty() and its get_nowait().  Queue.put, Queue.empty
\* and Queue.get_nowait each run under the queue's lock and are one step.
QKeys == {"q", "m", "r", "space", "w", "up"}

InitQueue ==
    /\ variant = "cross"
    /\ pc = "input"
    /\ ticks = 0
    /\ read = <<>>
    /\ bt = NoTrace
    /\ pz = NoPause
    /\ hold = NoHold
    /\ chan = NoKeys
    /\ last_hit = "none"
    /\ input_queue = <<>>
    /\ \E g \in { XConstructed(<<1000, 0>>),
                   won(with_scores(XConstructed(<<1000, 0>>), TRUE, target_score, 3),
                       "You", x_width) } : StartsAs(g)

\* add_key on the listener thread
ListenerAddKey ==
    /\ pc # "done"
    /\ Len(chan.sent) < MaxSent
    /\ \E key \in QKeys :
        /\ input_queue' = enqueue(input_queue, key)
        /\ chan' = [chan EXCEPT !.sent = Append(chan.sent, key)]
    /\ UNCHANGED <<variant, pc, ticks, gvars, read, bt, pz, hold, last_hit>>

\* while not self.input_queue.empty(): an empty queue ends handle_input
CheckEmpty ==
    /\ pc = "input"
    /\ ticks < MaxTicks
    /\ pc' = IF input_queue = <<>> THEN x_next_stage("input", ~game_over /\ ~paused)
             ELSE "get"
    /\ UNCHANGED <<variant, ticks, gvars, input_queue, hvars>>

\* key = self.input_queue.get_nowait() and the branch for the key; Empty
\* breaks out of the loop
GetNoWait ==
    /\ pc = "get"
    /\ IF input_queue = <<>> THEN
           /\ pc' = x_next_stage("input", ~game_over /\ ~paused)
           /\ UNCHANGED <<gvars, input_queue, chan, last_hit>>
       ELSE
           /\ input_queue' = Tail(input_queue)
           /\ chan' = [chan EXCEPT !.taken = Append(chan.taken, Head(input_queue))]
           /\ last_hit' = IF x_keys_reset(game_over, <<Head(input_queue)>>) THEN "none"
                           ELSE last_hit
           /\ IF Head(input_queue) = "q"
              THEN pc' = "done" /\ UNCHANGED gvars
              ELSE /\ pc' = "input"
                   /\ \E rnd \in Draws(Head(input_queue) \in {"m", "r"}) :
                         Commit(x_handle_key(Cur, Head(input_queue), rnd))
    /\ UNCHANGED <<variant, ticks, read, bt, pz, hold>>

NextQueue ==
    \/ ListenerAddKey
    \/ CheckEmpty
    \/ GetNoWait
    \/ XUpdateBall
    \/ XUpdateAIPaddle
    \/ XDraw

SpecQueue == InitQueue /\ [][NextQueue]_vars

\* ------------------------------------------------------------------ claims
Curses == variant = "curses"
\* the field of the running program
FieldWidth == IF Curses THEN width ELSE x_width
FieldHeight == IF Curses THEN height ELSE x_height
Centre == <<(FieldWidth \div 2) * Cell, (FieldHeight \div 2) * Cell>>
StartRow == (FieldHeight \div 2 - paddle_height \div 2) * PCell
\* which side a winner label names
WinnerSide(w) ==
    IF w \in {"Player 1", "You"} THEN 1 ELSE IF w \in {"Player 2", "Computer"} THEN 2 ELSE 0

\* C1: in every reachable state of the curses game both paddle positions lie
\* within [1, height - paddle_height - 1], for the human step and the AI step.
C1_PaddlesInField ==
    Curses =>
        /\ 1 * PCell <= p1_y /\ p1_y <= (height - paddle_height - 1) * PCell
        /\ 1 * PCell <= p2_y /\ p2_y <= (height - paddle_height - 1) * PCell

\* paddle 1 was pushed up against the top boundary by the held key and the AI
\* pushed paddle 2 down against the bottom boundary: both steps were rejected
C1_Witness ==
    /\ Curses /\ single_player /\ pc = "draw" /\ ticks = 0
    /\ p1_moving_up /\ p1_y = 1 * PCell /\ p1_velocity = 0
    /\ p2_y = (height - paddle_height - 1) * PCell /\ p2_velocity = 0

\* C2 (as claimed): after handle_input the two direction keys of a player are
\* never both held and the two movement intents of a player are never both set.
C2_DirectionsExclusive ==
    Curses =>
        /\ ~(key_states["w"] /\ key_states["s"])
        /\ ~(key_states["up"] /\ key_states["down"])
        /\ ~(p1_moving_up /\ p1_moving_down)
        /\ ~(p2_moving_up /\ p2_moving_down)

\* C3: both scores are in 0..target_score, at most one equals target_score,
\* and game_over holds exactly when one of them equals target_score.
C3_ScoresAndGameOver ==
    /\ p1_score \in 0..target_score
    /\ p2_score \in 0..target_score
    /\ ~(p1_score = target_score /\ p2_score = target_score)
    /\ game_over <=> (p1_score = target_score \/ p2_score = target_score)

C3_Witness ==
    /\ Curses /\ game_over /\ pc = "ai"
    /\ p2_score = target_score /\ p1_score = target_score - 1

\* C4: a ball step whose moved ball has x < 0 adds exactly 1 to the right
\* score and leaves the left score, then resets the ball to the centre (score
\* below target) or ends the game with the right side as winner; symmetric
\* for x > width; with 0 <= x <= width no score changes.
BallStep == pc = "ball" /\ pc' = "ai" /\ bt'.stepped

C4_Step ==
    BallStep =>
        IF bt'.mx < 0 THEN
            /\ p2_score' = p2_score + 1 /\ p1_score' = p1_score
            /\ IF p2_score' < target_score
               THEN <<ball_x', ball_y'>> = Centre /\ ~game_over'
               ELSE p2_score' = target_score /\ game_over' /\ WinnerSide(winner') = 2
                    /\ (Curses => winner' = "Player 2")
        ELSE IF bt'.mx > FieldWidth * Cell THEN
            /\ p1_score' = p1_score + 1 /\ p2_score' = p2_score
            /\ IF p1_score' < target_score
               THEN <<ball_x', ball_y'>> = Centre /\ ~game_over'
               ELSE p1_score' = target_score /\ game_over' /\ WinnerSide(winner') = 1
                    /\ (Curses => winner' = "Player 1")
        ELSE p1_score' = p1_score /\ p2_score' = p2_score /\ game_over' = game_over

\* C4: every ball step scores as C4_Step says: one point to the side opposite
\* the edge the ball left by, then a centre reset or the end of the game.
C4_Scoring == [][C4_Step]_vars

\* the ball has just left on the left with the right side one point short
C4_Witness ==
    /\ Curses /\ pc = "ai" /\ bt.stepped /\ bt.mx < 0
    /\ p2_score = target_score /\ game_over /\ winner = "Player 2"

\* C5: when the moved ball has y <= 1 or y >= height - 2, wall handling leaves
\* y within [2, height - 3] and dy the exact negation of its value before;
\* otherwise wall handling touches neither.
C5_WallHandling ==
    (pc = "ai" /\ bt.stepped) =>
        /\ IF bt.my <= 1 * Cell \/ bt.my >= (FieldHeight - 2) * Cell
           THEN /\ 2 * Cell <= bt.wy /\ bt.wy <= (FieldHeight - 3) * Cell
                /\ bt.wdy = -bt.dy0
                /\ bt.wall
           ELSE bt.wy = bt.my /\ bt.wdy = bt.dy0 /\ ~bt.wall
        /\ (bt.mx >= 0 /\ bt.mx <= FieldWidth * Cell) => ball_y = bt.wy

\* the ball went past the top wall and was put back on row 2, flying down
C5_Witness ==
    /\ Curses /\ pc = "ai" /\ bt.stepped /\ bt.my < 1 * Cell
    /\ ball_y = 2 * Cell /\ bt.dy0 < 0 /\ ball_dy > 0

\* C6: when a paddle hit triggers, hitPos = (rounded ball y - rounded paddle
\* y) / (paddle_height - 1) lies in [0, 1] and dy changes by exactly
\* (hitPos - 0.5) * 0.5, i.e. by (k - 2) / 8 for the hit cell k in 0..4:
\* nothing at the centre, -0.25 at the top cell, +0.25 at the bottom cell.
HitCell(py) == PyRound(ball_y, Cell) - PyRound(py, PCell)

C6_Deflection ==
    (pc = "ai" /\ bt.stepped /\ bt.mx >= 0 /\ bt.mx <= FieldWidth * Cell) =>
        /\ ~(bt.lhit /\ bt.rhit)
        /\ bt.lhit => /\ HitCell(p1_y) \in 0..(paddle_height - 1)
                      /\ ball_dy - bt.wdy = 125 * (HitCell(p1_y) - 2)
                      /\ bt.lpos = 250 * HitCell(p1_y)
        /\ bt.rhit => /\ HitCell(p2_y) \in 0..(paddle_height - 1)
                      /\ ball_dy - bt.wdy = 125 * (HitCell(p2_y) - 2)
                      /\ bt.rpos = 250 * HitCell(p2_y)
        /\ (~bt.lhit /\ ~bt.rhit) => ball_dy = bt.wdy
        /\ Abs(ball_dy - bt.wdy) <= 250

\* the right paddle was hit on its bottom cell: hitPos = 1, dy grew by 0.25
C6_Witness ==
    /\ pc = "ai" /\ bt.stepped /\ bt.rhit /\ ~bt.lhit
    /\ HitCell(p2_y) = paddle_height - 1 /\ ball_dy - bt.wdy = 250

\* C7 (as claimed): pause, paused ticks without keys, unpause: while paused
\* the ball and the paddles stand still, and the unpausing tick continues the
\* game as a tick without the pause would have: the same held-key intents,
\* the paddle step of one frame (not of the time spent paused), a ball step
\* only if one frame would have opened the gate.
Motion(g) == <<g.ball_x, g.ball_y, g.ball_dx, g.ball_dy,
               g.p1_y, g.p2_y, g.p1_velocity, g.p2_velocity>>
Intents(g) == <<g.p1_moving_up, g.p1_moving_down, g.p2_moving_up, g.p2_moving_down>>
\* the game interrupted by the pause, after the input stage of a tick of
\* frame time f without keys
Unpaused(f) == handle_input(advance(pz.snap, f), <<>>, <<1000, 0>>).g
FramesOfPause == {pz.d1, pz.d2}

\* C7 (as claimed): the pause leaves the motion alone and the resuming tick
\* behaves as a tick of one frame without the pause.
C7_PauseIdempotent ==
    Curses =>
        /\ pz.st = "paused" => Motion(Cur) = Motion(pz.snap)
        /\ (pz.st = "resumed" /\ pc = "ball") =>
              /\ Motion(Cur) = Motion(pz.snap)
              /\ \E f \in FramesOfPause : Intents(Cur) = Intents(Unpaused(f))
        /\ (pz.st = "resumed" /\ pc = "ai") =>
              \E f \in FramesOfPause : bt.stepped = gate_open(Unpaused(f))
        /\ (pz.st = "resumed" /\ pc = "draw" /\ ~game_over) =>
              \E f \in FramesOfPause :
                  LET u == update_paddle_movement(Unpaused(f))
                  IN  p1_y = u.p1_y /\ p1_velocity = u.p1_velocity

\* the failing run: a held key keeps paddle 1 moving, the game is paused for
\* one tick and resumed: the resuming tick moves the paddle by the time of
\* both ticks
C7_Drift ==
    /\ Curses /\ pz.st = "resumed" /\ pc = "draw" /\ ~game_over
    /\ p1_y # update_paddle_movement(Unpaused(pz.d1)).p1_y
    /\ p1_y # update_paddle_movement(Unpaused(pz.d2)).p1_y

\* ---- the game state machine
Mode == IF game_over THEN "GameOver" ELSE IF paused THEN "Paused" ELSE "Playing"

\* this step of the curses game is a handle_input call that read the keys batch
InputOf(batch) == Curses /\ pc = "input" /\ pc' # "input" /\ read' = batch

\* this handle_input call changed the game as a call without keys would have
AsWithoutKeys ==
    \E dt \in Frames : Cur' = handle_input(advance(Cur, dt), <<>>, <<1000, 0>>).g

\* this step is a stage of the curses tick after handle_input
StageStep == Curses /\ pc # "input" /\ pc' # pc

\* C8 (as claimed): the state changes only by Playing <-> Paused on the pause
\* key, Playing -> GameOver when a score reaches target_score and GameOver ->
\* Playing on the restart key; no mode, difficulty or movement key and no tick
\* changes it; the pause key does nothing in GameOver, the restart key
\* nothing outside GameOver.
C8_ClaimedStep ==
    /\ StageStep =>
          \/ Mode' = Mode
          \/ /\ pc = "ball" /\ Mode = "Playing" /\ Mode' = "GameOver"
             /\ (p1_score' = target_score \/ p2_score' = target_score)
    /\ InputOf(<<>>) => Mode' = Mode
    /\ InputOf(<<" ">>) =>
          /\ Mode = "Playing" => Mode' = "Paused"
          /\ Mode = "Paused" => Mode' = "Playing"
          /\ Mode = "GameOver" => Mode' = "GameOver" /\ AsWithoutKeys
    /\ InputOf(<<"r">>) =>
          /\ Mode = "GameOver" => Mode' = "Playing"
          /\ Mode # "GameOver" => Mode' = Mode /\ AsWithoutKeys
    /\ \A k \in {"m", "d", "w", "s", "up", "down"} : InputOf(<<k>>) => Mode' = Mode

\* C8 (as claimed): never paused and over at once, and every step is one of
\* the claimed transitions.
C8_ClaimedMachine == [](Curses => ~(paused /\ game_over)) /\ [][C8_ClaimedStep]_vars

\* C8 (amended): as claimed, except that a mode or difficulty key pressed in
\* Paused resets the game and so leads to Playing; in Playing and in GameOver
\* these keys leave the state alone.
C8_Step ==
    /\ StageStep =>
          \/ Mode' = Mode
          \/ /\ pc = "ball" /\ Mode = "Playing" /\ Mode' = "GameOver"
             /\ (p1_score' = target_score \/ p2_score' = target_score)
    /\ InputOf(<<>>) => Mode' = Mode
    /\ InputOf(<<" ">>) =>
          /\ Mode = "Playing" => Mode' = "Paused"
          /\ Mode = "Paused" => Mode' = "Playing"
          /\ Mode = "GameOver" => Mode' = "GameOver" /\ AsWithoutKeys
    /\ InputOf(<<"r">>) =>
          /\ Mode = "GameOver" => Mode' = "Playing"
          /\ Mode # "GameOver" => Mode' = Mode /\ AsWithoutKeys
    /\ \A k \in {"m", "d"} : InputOf(<<k>>) =>
          /\ Mode = "Paused" => Mode' = "Playing"
          /\ Mode # "Paused" => Mode' = Mode
    /\ \A k \in {"w", "s", "up", "down"} : InputOf(<<k>>) => Mode' = Mode

\* C8 (amended): never paused and over at once, and every step is one of the
\* claimed transitions or Paused -> Playing on a mode or difficulty key.
C8_Machine == [](Curses => ~(paused /\ game_over)) /\ [][C8_Step]_vars

\* a paused game was reset by a mode or difficulty key and plays again
C8_Witness == Curses /\ pz.st = "reset" /\ pc = "ball" /\ Mode = "Playing"

\* C9: a mode switch or difficulty cycle processed while the game is not over
\* leaves both scores 0, both paddles at the start position at rest and the
\* ball at the field centre.
FullReset ==
    /\ p1_score = 0 /\ p2_score = 0
    /\ p1_y = StartRow
    /\ p2_y = StartRow
    /\ p1_velocity = 0 /\ p2_velocity = 0
    /\ <<ball_x, ball_y>> = Centre

\* this step of the cross-platform game is a handle_input call that found
\* exactly the keys queue waiting
XInputOf(queue) ==
    variant = "cross" /\ pc = "input" /\ pc' # "input" /\ input_queue = queue

C9_Step ==
    /\ \A k \in {"m", "d"} : (InputOf(<<k>>) /\ ~game_over) => FullReset'
    /\ (XInputOf(<<"m">>) /\ ~game_over) => FullReset'

\* C9: every mode switch or difficulty cycle read while the game is not over
\* ends in the full reset.
C9_SwitchResets == [][C9_Step]_vars

\* the game with "w" held and the score at 3 : target_score - 1 was reset
\* (reset_game leaves the key states alone)
C9_Witness ==
    /\ Curses /\ ticks = 0 /\ pc = "ball" /\ continuous_keys = {"w"}
    /\ p1_score = 0 /\ p2_score = 0 /\ p1_y = paddle_start /\ p1_velocity = 0

\* C10 (as claimed): a restart key processed in GameOver leaves game_over
\* false, paused false, no winner, both scores 0 and the ball at the centre,
\* in both programs.
Restarted ==
    /\ ~game_over /\ ~paused /\ winner = "None"
    /\ p1_score = 0 /\ p2_score = 0
    /\ <<ball_x, ball_y>> = Centre

C10_Step ==
    /\ (InputOf(<<"r">>) /\ game_over) => Restarted'
    /\ (InputOf(<<" ", "r">>) /\ game_over) => Restarted'
    /\ (XInputOf(<<"r">>) /\ game_over) => Restarted'

\* C10 (as claimed): every restart key read in GameOver ends in Playing with
\* the full reset, in both programs.
C10_RestartPlays == [][C10_Step]_vars

Playing == ~game_over /\ ~paused
Paddles == <<p1_y, p2_y, p1_velocity, p2_velocity>>
BallAndScores == <<ball_x, ball_y, ball_dx, ball_dy, p1_score, p2_score, game_over, winner>>

\* the hits the moved ball of the last ball advance makes with the paddles as
\* they are now
HitsNow ==
    LET lh == IF Curses THEN left_hit(bt.mx, bt.wy, bt.dx0, p1_y)
                        ELSE x_left_hit(bt.mx, bt.wy, bt.dx0, p1_y)
        dx1 == IF lh THEN Abs(bt.dx0) ELSE bt.dx0
        rh == IF Curses THEN right_hit(bt.mx, bt.wy, dx1, p2_y)
                        ELSE ~lh /\ x_right_hit(bt.mx, bt.wy, dx1, p2_y)
    IN  <<lh, rh>>

\* C12 (as claimed): the paddle steps of a tick come before its ball advance:
\* when the tick is ready to render, the paddle hits its ball advance applied
\* are those of the paddle positions the tick's paddle steps produced.
C12_BallReadsPaddleStep ==
    (pc = "draw" /\ bt.stepped) => <<bt.lhit, bt.rhit>> = HitsNow

\* C12 (amended): the stages run in the order input, ball advance with its
\* score/state transition, AI step of paddle 2, human paddle step (curses
\* game only: the cross-platform game moves the human paddles in its input
\* stage), render; the ball advance moves no paddle and applies the hits of
\* the paddles as the stages before it left them, the paddle stages touch
\* neither ball nor score, render changes nothing.
C12_Step ==
    /\ pc = "input" =>
          \/ pc' = "done"
          \/ pc' = (IF Playing' THEN "ball" ELSE "draw")
          \/ ~Curses /\ pc' = "input" /\ UNCHANGED gvars
    /\ pc = "ball" =>
          /\ pc' = "ai"
          /\ UNCHANGED Paddles
          /\ bt'.stepped =>
                bt' = [bt' EXCEPT !.lhit = HitsNow'[1], !.rhit = HitsNow'[2]]
    /\ pc = "ai" =>
          /\ pc' = (IF Curses THEN "paddle" ELSE "draw")
          /\ UNCHANGED <<BallAndScores, p1_y, p1_velocity>>
    /\ pc = "paddle" => pc' = "draw" /\ UNCHANGED BallAndScores
    /\ pc = "draw" => pc' = "input" /\ UNCHANGED gvars
    /\ pc = "done" => FALSE

C12_StageOrder == [][C12_Step]_vars

\* paddle 1, moving down with "s" held, deflected the ball with its top cell
\* and then stepped 1.5 cells down: the hit was decided on the position the
\* tick before had left
C12_Witness ==
    /\ Curses /\ pc = "draw" /\ bt.stepped /\ bt.lhit /\ ball_dx > 0
    /\ ~HitsNow[1]

\* ---- the movement law of the AI paddle
\* this step is an update_ai_paddle call that moves the AI paddle
AIStep == Curses /\ pc = "ai" /\ pc' = "paddle" /\ single_player /\ Playing
FrameDt == Min(paddle_age, dt_cap)

\* the human paddle step of update_paddle_movement, applied to position y and
\* velocity v with target velocity target: <<new y, new velocity>>
HumanLaw(y, v, target, dt) == move(y, accelerate(v, target, paddle_acceleration, dt), dt)

\* the same law with the acceleration scaled by 0.8, written out
SlowerLaw(y, v, target, dt) ==
    LET d == target - v
        a == (paddle_acceleration * 8) \div 10
        nv == IF Abs(d) <= 100 \/ Abs(d) <= a * dt THEN target
              ELSE IF d > 0 THEN v + a * dt ELSE v - a * dt
        ny == y + nv * dt
    IN  IF 1 * PCell <= ny /\ ny <= (height - paddle_height - 1) * PCell
        THEN <<ny, nv>> ELSE <<y, 0>>

HoldOver == hold.elapsed + 20 > MaxHold
\* the way the paddle has from its start position to the lower boundary
Room == paddle_max - paddle_start

\* C14 (as claimed): with Down held from a fresh reset the velocity of paddle
\* 1 never exceeds paddle_speed, stays at paddle_speed once it has reached it
\* and equals paddle_speed when the second is over.
C14_ReachesAndHolds ==
    /\ hold.elapsed > 0 => p1_moving_down
    /\ p1_velocity <= paddle_speed
    /\ hold.reached => p1_velocity = paddle_speed
    /\ HoldOver => p1_velocity = paddle_speed

\* C14 (amended): the velocity never exceeds paddle_speed and never is
\* negative; until the lower boundary has rejected a step it is
\* min(paddle_acceleration * t, paddle_speed) after t ms (at paddle_speed
\* from 0.3 s on); a rejected step sets it to 0, and from then on the paddle
\* stays within one step (1.5 cells) of the boundary and below paddle_speed;
\* in a field with less than 12.75 cells of room that is the case when the
\* second is over.
C14_HeldUntilStopped ==
    /\ hold.elapsed > 0 => p1_moving_down
    /\ 0 <= p1_velocity /\ p1_velocity <= paddle_speed
    /\ ~hold.stopped => p1_velocity = Min(paddle_acceleration * hold.elapsed, paddle_speed)
    /\ hold.stopped => /\ p1_velocity < paddle_speed
                       /\ p1_y > paddle_max - paddle_speed * dt_cap
                       /\ p1_y <= paddle_max
    /\ (HoldOver /\ Room * 4 < 51 * PCell) => hold.stopped

\* the paddle reached paddle_speed, was stopped by the boundary and is
\* accelerating again when the second is over
C14_Witness ==
    /\ HoldOver /\ hold.reached /\ hold.stopped
    /\ 0 < p1_velocity /\ p1_velocity < paddle_speed

\* ---- the keyboard queue
\* the game loop is inside handle_input
Draining == pc \in {"input", "get"} /\ ticks < MaxTicks

\* C15: handle_input can always take its next step, whatever the queue holds
\* (it never waits for a key); the keys taken so far followed by the keys
\* waiting are the keys put, in the order put (none lost, taken twice or
\* overtaken); and a step of the listener changes the queue and nothing else
\* of the game.
C15_QueueHandoff ==
    /\ [](Draining => ENABLED (CheckEmpty \/ GetNoWait))
    /\ [](chan.taken \o input_queue = chan.sent)
    /\ [][Len(chan.sent') > Len(chan.sent) =>
            /\ input_queue' = Append(input_queue, chan.sent'[Len(chan.sent')])
            /\ UNCHANGED <<gvars, pc, ticks>>]_vars

\* the listener put "w" and then "up" while the loop was running; the first
\* handle_input took both, in that order, and found the queue empty
C15_Witness ==
    /\ variant = "cross" /\ pc = "input" /\ ticks = 0
    /\ chan.sent = <<"w", "up">> /\ chan.taken = <<"w", "up">> /\ input_queue = <<>>

\* ---- difficulty
Settings == <<current_difficulty, ball_speed, ai_speed, ai_prediction>>

\* C16: the derived settings always are those of current_difficulty; a
\* difficulty key moves Easy -> Medium -> Hard -> Easy, in GameOver too, and
\* three of them restore difficulty and settings.
C16_DifficultySettings ==
    /\ [](Curses =>
            /\ current_difficulty \in 0..2
            /\ ball_speed = ball_speeds[current_difficulty + 1]
            /\ ai_speed * 1000 = ai_base_speed * difficulty_multipliers[current_difficulty + 1]
            /\ ai_prediction * 1000
                  = ai_base_prediction * difficulty_multipliers[current_difficulty + 1])
    /\ [][/\ (InputOf(<<"d">>) =>
                 current_difficulty' = (IF current_difficulty = 2 THEN 0
                                        ELSE current_difficulty + 1))
           /\ (InputOf(<<"d", "d", "d">>) => Settings' = Settings)]_vars

\* the difficulty was cycled to Hard while the game was over
C16_Witness ==
    /\ Curses /\ game_over /\ read = <<"d">>
    /\ current_difficulty = 2 /\ ball_speed = 10 /\ ai_speed = 800 /\ ai_prediction = 300

\* ---- ball reset
\* this step called reset_game: m or d outside GameOver, r in GameOver
KeyReset ==
    \/ InputOf(<<"r">>) /\ game_over
    \/ (InputOf(<<"m">>) \/ InputOf(<<"d">>) \/ InputOf(<<"d", "d", "d">>)) /\ ~game_over

\* this ball step scored a point that did not end the game
ScoredOn ==
    /\ Curses /\ pc = "ball" /\ ~game_over'
    /\ <<p1_score', p2_score'>> # <<p1_score, p2_score>>

ResetSpeed == (base_speed * difficulty_speed_multipliers[current_difficulty + 1]) \div 1000

FreshBall ==
    /\ ball_x = (width \div 2) * Cell /\ ball_y = (height \div 2) * Cell
    /\ ball_dx # 0
    /\ Abs(ball_dy) <= Abs(ball_dx)
    /\ ball_dx * ball_dx + ball_dy * ball_dy = ResetSpeed * ResetSpeed
    /\ ball_age = 0

\* C17: after every ball reset the ball is at the centre, moves horizontally
\* at least as fast as vertically, at the speed of the difficulty then in
\* force, and a reset can send it either way.
C17_BallReset ==
    /\ [][(KeyReset \/ ScoredOn) => FreshBall']_vars
    /\ [](Curses => /\ \E rnd \in BallStarts : reset_ball(Cur, rnd).ball_dx < 0
                    /\ \E rnd \in BallStarts : reset_ball(Cur, rnd).ball_dx > 0)

\* a difficulty key reset the game on Hard and sent the ball up and left
C17_Witness ==
    /\ Curses /\ read = <<"d">> /\ current_difficulty = 2 /\ ~game_over
    /\ ball_x = (width \div 2) * Cell /\ ball_y = (height \div 2) * Cell
    /\ ball_dx = -2240 /\ ball_dy = -1680

\* ---- AI prediction
\* ball_y + ball_dy * ((p2_x - ball_x) / |ball_dx|) * ai_prediction for a ball
\* that comes toward the AI, the middle row otherwise
ClaimedPrediction ==
    IF ball_dx > 0 THEN
        LET t == TruncDiv((p2_x * Cell - ball_x) * 1000, Abs(ball_dx))
        IN  ball_y + TruncDiv(TruncDiv(ball_dy * t, 1000) * ai_prediction, 1000)
    ELSE (height \div 2) * Cell

\* the target velocity the AI derives from a predicted y
TargetFor(pred) ==
    LET distance == pred * 1000 - (p2_y + (paddle_height \div 2) * PCell)
        full == (paddle_speed * ai_speed) \div 1000
        scaled == (full * (Min(Abs(distance), 3 * PCell) \div 1000)) \div 3000
    IN  IF Abs(distance) * 2 > PCell THEN (IF distance > 0 THEN scaled ELSE -scaled) ELSE 0

\* C18: without noise the AI predicts ball_y + ball_dy * time * ai_prediction
\* for a ball with dx > 0 (so the ball's own row when dy = 0) and the middle
\* row for dx <= 0, and each AI step steers paddle 2 toward that prediction.
C18_Prediction ==
    /\ [](Curses =>
            /\ predicted_y(Cur, 0) = ClaimedPrediction
            /\ (ball_dx > 0 /\ ball_dy = 0) => predicted_y(Cur, 0) = ball_y
            /\ ball_dx <= 0 => predicted_y(Cur, 0) = (height \div 2) * Cell)
    /\ [][AIStep => \E noise \in NoiseDraws :
                       <<p2_y', p2_velocity'>> =
                           SlowerLaw(p2_y, p2_velocity,
                                     TargetFor(ClaimedPrediction + noise), FrameDt)]_vars

\* the AI has followed a rising ball toward a row above the ball's own
C18_Witness ==
    /\ Curses /\ pc = "paddle" /\ single_player /\ Playing
    /\ ball_dx > 0 /\ ball_dy < 0 /\ ClaimedPrediction < ball_y /\ p2_velocity < 0

\* ---- ball gating
\* this step is an update_ball call of the curses game
BallCall == Curses /\ pc = "ball" /\ pc' = "ai"
BallState == <<ball_x, ball_y, ball_dx, ball_dy, p1_score, p2_score, game_over, winner, ball_age>>

\* C19: an update_ball call less than ball_speed after the last ball move
\* changes nothing; a later call integrates the position exactly once, however
\* much time has passed, and restarts the interval.
C19_Gate ==
    [][BallCall =>
         IF ball_age < ball_speed
         THEN BallState' = BallState /\ ~bt'.stepped
         ELSE /\ bt'.stepped
              /\ <<bt'.mx, bt'.my>> = <<ball_x + ball_dx, ball_y + ball_dy>>
              /\ ball_age' = 0
              /\ (~bt'.wall /\ ~bt'.lhit /\ ~bt'.rhit /\ ~leaves_field(bt'.mx)) =>
                     <<ball_x', ball_y', ball_dx', ball_dy'>> =
                         <<ball_x + ball_dx, ball_y + ball_dy, ball_dx, ball_dy>>
              /\ ~leaves_field(bt'.mx) =>
                     <<p1_score', p2_score', game_over', winner'>> =
                         <<p1_score, p2_score, game_over, winner>>]_vars

\* 100 ms after the reset, five intervals at Medium, the ball has moved by
\* one step
C19_Witness ==
    /\ Curses /\ pc = "ai" /\ bt.stepped /\ ticks = 0
    /\ paddle_age = 100 /\ ball_speed = 20 /\ ball_age = 0
    /\ ball_dx = 2000 /\ ball_x = (width \div 2) * Cell + 2000

\* ---- direction-gated paddle hits
\* the moved ball of the last ball step is within reach of the left paddle
InLeftReach ==
    /\ PyRound(bt.mx, Cell) <= p1_x + paddle_width
    /\ PyRound(p1_y, PCell) <= PyRound(bt.wy, Cell)
    /\ PyRound(bt.wy, Cell) <= PyRound(p1_y, PCell) + paddle_height - 1

\* C20: a left hit happens only to a ball with dx < 0 and leaves dx > 0, a
\* right hit only with dx > 0 and leaves dx < 0; no ball step has both; and
\* the paddle that hit last since the ball's reset does not hit again.
C20_DirectionGated ==
    /\ [](bt.stepped =>
            /\ bt.lhit => (bt.dx0 < 0 /\ bt.dx > 0)
            /\ bt.rhit => (bt.dx0 > 0 /\ bt.dx < 0)
            /\ ~(bt.lhit /\ bt.rhit)
            /\ (pc = "ai" /\ bt.lhit /\ last_hit = "left") => ball_dx > 0
            /\ (pc = "ai" /\ bt.rhit /\ last_hit = "right") => ball_dx < 0)
    /\ [][pc = "ball" => ((bt'.lhit => last_hit # "left")
                             /\ (bt'.rhit => last_hit # "right"))]_vars

\* one tick after its hit the ball is still within reach of the left paddle,
\* flying away from it, and is not hit again
C20_Witness ==
    /\ Curses /\ pc = "ai" /\ bt.stepped /\ ticks = 1
    /\ last_hit = "left" /\ InLeftReach /\ ~bt.lhit /\ ball_dx > 0

\* ---- boundary policy
\* this step is an update_paddle_movement call of a running game
PaddleStep == Curses /\ pc = "paddle" /\ pc' = "draw" /\ Playing

\* position y and velocity v (after acceleration) become y2 and v2 as the
\* boundary policy says
Policy(y, v, dt, y2, v2) ==
    IF 1 * PCell <= y + v * dt /\ y + v * dt <= (height - paddle_height - 1) * PCell
    THEN y2 = y + v * dt /\ v2 = v
    ELSE y2 = y /\ v2 = 0

\* C21: a paddle step whose new position would leave [1, height -
\* paddle_height - 1] keeps the position and ends with velocity 0; one that
\* stays inside moves by velocity * dt and keeps the velocity.  For paddle 1,
\* the human paddle 2 and the AI paddle 2.
C21_BoundaryPolicy ==
    /\ [][PaddleStep =>
            /\ Policy(p1_y,
                      accelerate(p1_velocity, target_velocity(p1_moving_up, p1_moving_down),
                                 paddle_acceleration, FrameDt),
                      FrameDt, p1_y', p1_velocity')
            /\ ~single_player =>
                  Policy(p2_y,
                         accelerate(p2_velocity, target_velocity(p2_moving_up, p2_moving_down),
                                    paddle_acceleration, FrameDt),
                         FrameDt, p2_y', p2_velocity')]_vars
    /\ [][AIStep => \E noise \in NoiseDraws :
                       Policy(p2_y,
                              accelerate(p2_velocity, ai_target_velocity(Cur, noise),
                                         ai_acceleration, FrameDt),
                              FrameDt, p2_y', p2_velocity')]_vars

\* paddle 1, a tenth of a cell below the top boundary and pushed up, has been
\* stopped where it was
C21_Witness ==
    /\ Curses /\ pc = "draw" /\ ticks = 0 /\ Playing /\ p1_moving_up
    /\ p1_y = 1 * PCell + PCell \div 10 /\ p1_velocity = 0

\* ---- no overshoot
Between(a, x, b) == (a <= x /\ x <= b) \/ (b <= x /\ x <= a)

\* a paddle step from velocity v0 toward target with acceleration a went
\* through a velocity v that lies between v0 and target, is the target when
\* the gap is at most 0.1 or the step a * dt covers it, and was then applied
\* to the position y under the boundary policy, giving y2 and v2
NoOvershoot(v0, target, a, dt, y, y2, v2) ==
    \E v \in {v2, target, v0 + a * dt, v0 - a * dt} :
        /\ Between(v0, v, target)
        /\ (Abs(target - v0) <= 100 \/ Abs(target - v0) <= a * dt) => v = target
        /\ Policy(y, v, dt, y2, v2)

\* C22: every paddle step leaves the velocity, before the boundary zeroing,
\* between the velocity before and the target, on the target when the gap is
\* at most 0.1 or the acceleration step would cross it; and both paddle
\* speeds stay within paddle_speed.
C22_NoOvershoot ==
    /\ [](Abs(p1_velocity) <= paddle_speed /\ Abs(p2_velocity) <= paddle_speed)
    /\ [][PaddleStep =>
            /\ NoOvershoot(p1_velocity, target_velocity(p1_moving_up, p1_moving_down),
                           paddle_acceleration, FrameDt, p1_y, p1_y', p1_velocity')
            /\ ~single_player =>
                  NoOvershoot(p2_velocity, target_velocity(p2_moving_up, p2_moving_down),
                              paddle_acceleration, FrameDt, p2_y, p2_y', p2_velocity')]_vars
    /\ [][AIStep => \E noise \in NoiseDraws :
                       NoOvershoot(p2_velocity, ai_target_velocity(Cur, noise),
                                   (paddle_acceleration * 8) \div 10, FrameDt,
                                   p2_y, p2_y', p2_velocity')]_vars

\* the AI paddle, started at rest on its start row, has a velocity that is no
\* multiple of its acceleration steps (0.8 and 4 cells/s): it was set to a
\* target that a step would have crossed
C22_Witness ==
    /\ Curses /\ pc = "paddle" /\ single_player /\ Playing
    /\ Abs(p2_y - paddle_start) < 2 * PCell
    /\ p2_velocity % 800 # 0

\* ---- keys during GameOver
\* what a reset would replace: the final result, the paddles and the ball
Standing == <<p1_score, p2_score, winner, game_over, paused,
              p1_y, p2_y, p1_velocity, p2_velocity, ball_x, ball_y, ball_dx, ball_dy>>
KeyRecord == <<key_states, continuous_keys>>

\* C23: during GameOver m changes only the mode and d only the difficulty
\* and its settings, scores, winner, game_over, paddles and ball staying as
\* they are; a movement key pressed during GameOver is recorded nowhere.
C23_GameOverKeys ==
    [][game_over =>
         /\ InputOf(<<"m">>) =>
               /\ single_player' = ~single_player
               /\ UNCHANGED <<Standing, Settings>>
         /\ InputOf(<<"d">>) =>
               /\ current_difficulty' = (current_difficulty + 1) % 3
               /\ UNCHANGED <<Standing, single_player>>
         /\ \A k \in MoveKeys :
               InputOf(<<k>>) =>
                   /\ AsWithoutKeys
                   /\ key_age'[k] > 0
                   /\ key_states'[k] => key_states[k]
                   /\ k \in continuous_keys' => k \in continuous_keys
                   /\ UNCHANGED <<Standing, Settings, single_player>>]_vars

\* the mode was switched after Player 1 had won 10 : 3; the result stands
C23_Witness ==
    /\ Curses /\ game_over /\ read = <<"m">> /\ single_player
    /\ p1_score = target_score /\ p2_score = 3 /\ winner = "Player 1"
    /\ ball_x = width * Cell + 500

\* ---- the controller of paddle 2
\* this step is the AI stage of a curses tick, in either mode
AIStage == Curses /\ pc = "ai" /\ pc' = "paddle"

\* C24: in single-player mode only the AI update moves paddle 2 and Player
\* 2's intent flags are false; in two-player mode the AI update changes
\* nothing and the paddle step moves paddle 2 by Player 2's intent; the AI
\* update never moves paddle 1.
C24_OneController ==
    /\ []((Curses /\ single_player) => (~p2_moving_up /\ ~p2_moving_down))
    /\ [][/\ ((PaddleStep /\ single_player) => UNCHANGED <<p2_y, p2_velocity>>)
           /\ ((PaddleStep /\ ~single_player) =>
                 <<p2_y', p2_velocity'>> =
                     HumanLaw(p2_y, p2_velocity,
                              target_velocity(p2_moving_up, p2_moving_down), FrameDt))
           /\ ((AIStage /\ ~single_player) => UNCHANGED gvars)
           /\ (AIStage => UNCHANGED <<p1_y, p1_velocity>>)]_vars

\* Player 2's up key is held in single-player mode, the AI has driven paddle
\* 2, and the paddle step has been taken
C24_Witness ==
    /\ Curses /\ single_player /\ pc = "draw" /\ Playing
    /\ key_states["up"] /\ ~p2_moving_up /\ p2_velocity # 0 /\ p2_y # paddle_start

\* ---- quiet ticks while Paused or GameOver
Simulation == <<ball_x, ball_y, ball_dx, ball_dy, p1_y, p2_y, p1_velocity, p2_velocity,
                p1_score, p2_score, winner>>
IntentsOff == ~p1_moving_up /\ ~p1_moving_down /\ ~p2_moving_up /\ ~p2_moving_down
\* this step is a handle_input call without keys while Paused or GameOver
QuietInput == InputOf(<<>>) /\ (paused \/ game_over)

C26_BetweenWalls ==
    /\ 1 * Cell < ball_y /\ ball_y < (FieldHeight - 2) * Cell
    /\ (bt.stepped /\ bt.my <= 1 * Cell) => (bt.wall /\ bt.wdy > 0)
    /\ (bt.stepped /\ bt.my >= (FieldHeight - 2) * Cell) => (bt.wall /\ bt.wdy < 0)

\* a ball falling 5.2 rows per step went more than three rows past the top
\* wall and is back on row 2, rising as fast
C26_Witness ==
    /\ Curses /\ pc = "ai" /\ bt.stepped /\ bt.wall
    /\ bt.my < -2 * Cell /\ ball_y = 2 * Cell /\ bt.dy0 = -5200 /\ bt.wdy = 5200

\* ---- horizontal speed
\* this step may have called reset_ball: a handle_input call that read m, d
\* or r, or a ball step that scored
BallResetStep ==
    \/ Curses /\ pc = "input" /\ \E i \in 1..Len(read') : read'[i] \in {"m", "d", "r"}
    \/ ~Curses /\ pc = "input"
    \/ pc = "ball" /\ <<p1_score', p2_score'>> # <<p1_score, p2_score>>

\* C27: ball_dx is never 0; no step but a ball reset changes |ball_dx|, and
\* ball_dx changes its sign only in a ball step with a paddle hit (whose
\* deflection goes to ball_dy alone) or in a reset.
C27_HorizontalSpeed ==
    /\ [](ball_dx # 0)
    /\ [][~BallResetStep =>
            /\ Abs(ball_dx') = Abs(ball_dx)
            /\ ball_dx' # ball_dx =>
                  (pc = "ball" /\ (bt'.lhit \/ bt'.rhit) /\ ball_dx' = -ball_dx)
            /\ (pc = "ball" /\ bt'.stepped) =>
                  (bt'.dx0 = ball_dx /\ Abs(bt'.dx) = Abs(ball_dx))]_vars

\* the right paddle has returned a ball that came at 1.6 and was deflected:
\* dx is -1.6 and dy is no longer -1.2
C27_Witness ==
    /\ Curses /\ pc = "ai" /\ bt.stepped /\ bt.rhit
    /\ bt.dx0 = 1600 /\ ball_dx = -1600 /\ bt.dy0 = -1200 /\ ball_dy # -1200 /\ ball_dy # 1200

\* ---- paused and game_over exclude each other
\* C28: in the curses game paused and game_over are never both true: a
\* paused game does not become over, the pause key does nothing while the
\* game is over, and a reset clears both flags.
C28_PausedXorOver ==
    /\ [](Curses => ~(paused /\ game_over))
    /\ [][Curses =>
            /\ (paused /\ pc # "input") => UNCHANGED <<paused, game_over>>
            /\ (game_over /\ InputOf(<<" ">>)) => UNCHANGED <<paused, game_over>>
            /\ KeyReset => (~paused' /\ ~game_over')]_vars

\* the pause key was pressed after the game had ended and did nothing
C28_Witness ==
    /\ Curses /\ game_over /\ ~paused /\ read = <<" ">> /\ pc = "draw"

\* ---- the winner
\* this step is a handle_input call that read the restart key
Restart == Curses /\ pc = "input" /\ \E i \in 1..Len(read') : read'[i] = "r"

\* C29: in the curses game there is a winner exactly when the game is over,
\* it is Player 1 exactly when p1_score = target_score and Player 2 exactly
\* when p2_score = target_score, and a winner once set stays until a restart
\* clears it; a mode switch during GameOver leaves it.
C29_WinnerConsistent ==
    /\ [](Curses =>
            /\ winner = "None" <=> ~game_over
            /\ winner = "Player 1" <=> p1_score = target_score
            /\ winner = "Player 2" <=> p2_score = target_score
            /\ winner \in {"None", "Player 1", "Player 2"})
    /\ [][(Curses /\ winner # "None") =>
            /\ winner' # winner => (winner' = "None" /\ Restart)
            /\ InputOf(<<"m">>) => winner' = winner]_vars

\* the restart key has just reset a game that was over: the ball is fresh,
\* winner and scores are cleared
C29_Witness ==
    /\ Curses /\ ticks = 1 /\ pc = "ball" /\ read = <<"r">> /\ ball_age = 0
    /\ winner = "None" /\ ~game_over /\ p1_score = 0 /\ p2_score = 0

====
